---- MODULE Spec2Model ----
(***************************************************************************)
(* Model of the inkmate token contracts: the ERC721A sparse ownership      *)
(* ledger (contracts/src/tokens/erc721a.rs) and the ERC20 permit protocol  *)
(* (contracts/src/tokens/erc20.rs) with its recovery primitive.            *)
(*                                                                         *)
(* Every handler is a pure operator from (storage, inputs) to a record     *)
(* [self, result, log]; an action applies one handler to the storage.      *)
(***************************************************************************)
EXTENDS Integers, Sequences, FiniteSets, TLC

\* ------------------------------------------------------------------ bounds
\* Cap on _current_index: mint is only called while the index stays within it.
MaxIndex == 3
\* Largest quantity handed to _mint.
MaxQuantity == 3
\* Largest block timestamp.
MaxTime == 1
\* Largest ERC20 amount handed to a handler.
MaxValue == 1
\* Cap on a permit nonce: permit is only called while the owner's nonce is below it.
MaxNonce == 1

\* ------------------------------------------------------------- value sets
\* Address::ZERO / Address::default()
ZERO == 0
\* Two accounts besides the zero address.
Accounts == {1, 2}
Address == {ZERO} \cup Accounts
\* Token ids handed to the handlers: every id the ledger can hold and one beyond.
TokenIds == 0 .. MaxIndex
Timestamps == 0 .. MaxTime
Values == 0 .. MaxValue
Nonces == 0 .. MaxNonce
\* The address of a key that no account of the model holds.
STRANGER == Cardinality(Address)
\* The (r, s) of a signature that does not parse (r or s out of range).
NOKEY == STRANGER + 1

\* --------------------------------------------------------------- variables
VARIABLES
    erc721a,    \* storage of ERC721<T> (sol_storage! of erc721a.rs)
    erc20,      \* storage of ERC20<T> (sol_storage! of erc20.rs)
    erc721,     \* storage of the basic ERC721<T> (sol_storage! of erc721.rs)
    now,        \* block::timestamp()
    last,       \* ghost: the last call: its name, arguments, result, event log, the
                \* ERC721A ownership slots it changed, whether it replayed a permit
    consumed,   \* ghost: one successful permit call, kept to be submitted again
    mock_total_supply,  \* storage of ERC721Mock beside its ERC721<T>: total_supply
    batch_of    \* ghost: for every ERC721A id, the first id and the quantity of the
                \* _mint call that minted it, where the specification tracks it

vars == <<erc721a, erc20, erc721, now, last, consumed, mock_total_supply, batch_of>>

\* ------------------------------------------------------------ ERC721A data
\* A zero-initialised TokenOwnership slot.
EmptyOwnership == [addr |-> ZERO, start_timestamp |-> 0, burned |-> FALSE]
\* A zero-initialised AddressData.
EmptyAddressData == [balance |-> 0, number_minted |-> 0, number_burned |-> 0, aux |-> 0]

\* fn _start_token_id
_start_token_id == ZERO

\* Result constructors of the handlers.
Ok(self, log) == [self |-> self, result |-> "Ok", log |-> log]
Err(self, e) == [self |-> self, result |-> e, log |-> <<>>]
\* An error with the fields it carries.
ErrData(self, e, data) == [self |-> self, result |-> e, log |-> <<>>, data |-> data]

\* Transfer event of the ERC721A contract.
TransferEvent(from, to, token_id) ==
    [event |-> "Transfer", from |-> from, to |-> to, token_id |-> token_id]
\* Approval event of the ERC721A contract.
ApprovalEvent(owner, approved, token_id) ==
    [event |-> "Approval", owner |-> owner, approved |-> approved, token_id |-> token_id]

\* The backward scan of _ownership_of (the `loop` of lines 161-169): decrement
\* curr, read the slot, return it when its addr is non-zero.  The loop has no
\* lower bound: decrementing below id 0 wraps the U256 (or panics), which is
\* the outcome "Underflow".
RECURSIVE _ownership_scan(_, _)
_ownership_scan(self, curr) ==
    IF curr = 0
    THEN [result |-> "Underflow", ownership |-> EmptyOwnership, visited |-> 0]
    ELSE LET c == curr - 1
             ownership == self._ownerships[c]
         IN  IF ownership.addr # ZERO
             THEN [result |-> "Ok", ownership |-> ownership, visited |-> 1]
             ELSE LET r == _ownership_scan(self, c)
                  IN  [r EXCEPT !.visited = @ + 1]

\* Mutant: _ownership_of without the test token_id < _current_index.
_ownership_of_unbounded(self, token_id) ==
    IF /\ _start_token_id <= token_id
       /\ ~self._ownerships[token_id].burned
    THEN IF self._ownerships[token_id].addr # ZERO
         THEN [result |-> "Ok", ownership |-> self._ownerships[token_id], visited |-> 1]
         ELSE LET r == _ownership_scan(self, token_id)
              IN  [r EXCEPT !.visited = @ + 1]
    ELSE [result |-> "OwnerQueryForNonexistentToken", ownership |-> EmptyOwnership,
          visited |-> 0]

\* Mutant: _ownership_of without the test of the burned flag.
_ownership_of_burned(self, token_id) ==
    IF /\ _start_token_id <= token_id
       /\ token_id < self._current_index
    THEN IF self._ownerships[token_id].addr # ZERO
         THEN [result |-> "Ok", ownership |-> self._ownerships[token_id], visited |-> 1]
         ELSE LET r == _ownership_scan(self, token_id)
              IN  [r EXCEPT !.visited = @ + 1]
    ELSE [result |-> "OwnerQueryForNonexistentToken", ownership |-> EmptyOwnership,
          visited |-> 0]

\* fn _ownership_of
_ownership_of(self, token_id) ==
    IF /\ _start_token_id <= token_id
       /\ token_id < self._current_index
       /\ ~self._ownerships[token_id].burned
    THEN IF self._ownerships[token_id].addr # ZERO
         THEN [result |-> "Ok", ownership |-> self._ownerships[token_id], visited |-> 1]
         ELSE LET r == _ownership_scan(self, token_id)
              IN  [r EXCEPT !.visited = @ + 1]
    ELSE [result |-> "OwnerQueryForNonexistentToken", ownership |-> EmptyOwnership,
          visited |-> 0]

\* fn owner_of: the address, or the error
owner_of(self, token_id) ==
    LET r == _ownership_of(self, token_id)
    IN  IF r.result = "Ok" THEN [result |-> "Ok", addr |-> r.ownership.addr]
        ELSE [result |-> r.result, addr |-> ZERO]

\* fn _exists
_exists(self, token_id) ==
    /\ _start_token_id <= token_id
    /\ token_id < self._current_index
    /\ ~self._ownerships[token_id].burned

\* fn total_supply
total_supply(self) == self._current_index - self._burn_counter - _start_token_id

\* fn is_approved_for_all
is_approved_for_all(self, owner, operator) == self._operator_approvals[owner][operator]

\* fn get_approved
get_approved(self, token_id) ==
    IF ~_exists(self, token_id)
    THEN [result |-> "ApprovalQueryForNonexistentToken", addr |-> ZERO]
    ELSE [result |-> "Ok", addr |-> self._token_approvals[token_id]]

\* fn _approve: the storage write (the Approval event is added by the caller's log)
_approve(self, to, token_id, owner) ==
    [self EXCEPT !._token_approvals[token_id] = to]

\* Mutant: the loop of _mint stopping one id early.
RECURSIVE _mint_loop_short(_, _, _)
_mint_loop_short(to, updated_index, end) ==
    <<TransferEvent(ZERO, to, updated_index)>> \o
        (IF updated_index + 1 >= end - 1 THEN <<>>
         ELSE _mint_loop_short(to, updated_index + 1, end))

\* The Transfer events of _mint's loop (lines 248-259): a do-while from
\* updated_index up to end, so at least one event is logged.
RECURSIVE _mint_loop(_, _, _)
_mint_loop(to, updated_index, end) ==
    <<TransferEvent(ZERO, to, updated_index)>> \o
        (IF updated_index + 1 >= end THEN <<>> ELSE _mint_loop(to, updated_index + 1, end))

\* The value _mint's loop leaves in updated_index.
_mint_updated_index(start_token_id, end) ==
    IF start_token_id + 1 >= end THEN start_token_id + 1 ELSE end

\* Mutant: _mint writing the slot of every id of the batch.
_mint_every_slot(self, to, quantity, timestamp) ==
    LET start_token_id == self._current_index
        end == start_token_id + quantity
        s1 == [self EXCEPT
                 !._address_data[to].balance = @ + quantity,
                 !._address_data[to].number_minted = @ + quantity,
                 !._ownerships = [t \in DOMAIN @ |->
                                     IF start_token_id <= t /\ t < end
                                     THEN [@[t] EXCEPT !.addr = to,
                                                       !.start_timestamp = timestamp]
                                     ELSE @[t]]]
        s2 == [s1 EXCEPT !._current_index = _mint_updated_index(start_token_id, end)]
    IN  IF to = ZERO THEN Err(self, "MintToZeroAddress")
        ELSE IF quantity = 0 THEN Err(self, "MintZeroQuantity")
        ELSE Ok(s2, _mint_loop(to, start_token_id, end))

\* Mutant: _mint without the write of the batch's first ownership slot.
_mint_no_slot(self, to, quantity, timestamp) ==
    LET start_token_id == self._current_index
        end == start_token_id + quantity
        s1 == [self EXCEPT
                 !._address_data[to].balance = @ + quantity,
                 !._address_data[to].number_minted = @ + quantity]
        s2 == [s1 EXCEPT !._current_index = _mint_updated_index(start_token_id, end)]
    IN  IF to = ZERO THEN Err(self, "MintToZeroAddress")
        ELSE IF quantity = 0 THEN Err(self, "MintZeroQuantity")
        ELSE Ok(s2, _mint_loop(to, start_token_id, end))

\* Mutant: _mint counting one token in number_minted whatever the quantity.
_mint_counts_one(self, to, quantity, timestamp) ==
    LET start_token_id == self._current_index
        end == start_token_id + quantity
        s1 == [self EXCEPT
                 !._address_data[to].balance = @ + quantity,
                 !._address_data[to].number_minted = @ + 1,
                 !._ownerships[start_token_id].addr = to,
                 !._ownerships[start_token_id].start_timestamp = timestamp]
        s2 == [s1 EXCEPT !._current_index = _mint_updated_index(start_token_id, end)]
    IN  IF to = ZERO THEN Err(self, "MintToZeroAddress")
        ELSE IF quantity = 0 THEN Err(self, "MintZeroQuantity")
        ELSE Ok(s2, _mint_loop(to, start_token_id, end))

\* fn _mint
_mint(self, to, quantity, timestamp) ==
    LET start_token_id == self._current_index
        end == start_token_id + quantity
        s1 == [self EXCEPT
                 !._address_data[to].balance = @ + quantity,
                 !._address_data[to].number_minted = @ + quantity,
                 !._ownerships[start_token_id].addr = to,
                 !._ownerships[start_token_id].start_timestamp = timestamp]
        s2 == [s1 EXCEPT !._current_index = _mint_updated_index(start_token_id, end)]
    IN  IF to = ZERO THEN Err(self, "MintToZeroAddress")
        ELSE IF quantity = 0 THEN Err(self, "MintZeroQuantity")
        ELSE Ok(s2, _mint_loop(to, start_token_id, end))

\* Mutant: the caller test that lets every caller pass.
is_approved_or_owner_anyone(self, sender, from, token_id) ==
    [result |-> "Ok", value |-> TRUE]

\* The caller test shared by _transfer (lines 322-324) and _burn (lines 415-417):
\* msg::sender() == from || is_approved_for_all(from, sender)? || get_approved(id)? == sender,
\* evaluated left to right; get_approved may fail.
is_approved_or_owner(self, sender, from, token_id) ==
    IF sender = from \/ is_approved_for_all(self, from, sender)
    THEN [result |-> "Ok", value |-> TRUE]
    ELSE LET g == get_approved(self, token_id)
         IN  IF g.result # "Ok" THEN [result |-> g.result, value |-> FALSE]
             ELSE [result |-> "Ok", value |-> g.addr = sender]

\* Mutant: no successor materialisation.
_set_next_slot_never(self, token_id, from, prev_ownership) == self

\* Mutant: successor materialisation with the timestamp just written to the
\* slot of token_id, which is the block timestamp.
_set_next_slot_current(self, token_id, from, prev_ownership) ==
    LET next_token_id == token_id + 1
    IN  IF /\ self._ownerships[next_token_id].addr = ZERO
           /\ next_token_id # self._current_index
        THEN [self EXCEPT
                !._ownerships[next_token_id].addr = from,
                !._ownerships[next_token_id].start_timestamp =
                    self._ownerships[token_id].start_timestamp]
        ELSE self

\* Successor materialisation (lines 360-371 of _transfer, 447-458 of _burn):
\* when the slot of token_id + 1 has a zero addr and token_id + 1 is not
\* _current_index, the slot gets the previous owner and its timestamp.
_set_next_slot(self, token_id, from, prev_ownership) ==
    LET next_token_id == token_id + 1
    IN  IF /\ self._ownerships[next_token_id].addr = ZERO
           /\ next_token_id # self._current_index
        THEN [self EXCEPT
                !._ownerships[next_token_id].addr = from,
                !._ownerships[next_token_id].start_timestamp = prev_ownership.start_timestamp]
        ELSE self

\* Mutant: _transfer testing the receiver after clearing the approval.
_transfer_checks_late(self, sender, from, to, token_id, timestamp) ==
    LET prev == _ownership_of(self, token_id)
        prev_ownership == prev.ownership
        auth == is_approved_or_owner(self, sender, from, token_id)
        s1 == _approve(self, to, token_id, from)
        s2 == [s1 EXCEPT !._address_data[from].balance = @ - 1]
        s3 == [s2 EXCEPT !._address_data[to].balance = @ + 1]
        s4 == [s3 EXCEPT
                 !._ownerships[token_id].addr = to,
                 !._ownerships[token_id].start_timestamp = timestamp]
        s5 == _set_next_slot(s4, token_id, from, prev_ownership)
    IN  IF prev.result # "Ok" THEN Err(self, prev.result)
        ELSE IF prev_ownership.addr # from THEN Err(self, "TransferFromIncorrectOwner")
        ELSE IF auth.result # "Ok" THEN Err(self, auth.result)
        ELSE IF ~auth.value THEN Err(self, "TransferCallerNotOwnerNorApproved")
        ELSE IF to = ZERO THEN Err(s1, "TransferToZeroAddress")
        ELSE Ok(s5, <<ApprovalEvent(from, to, token_id), TransferEvent(from, to, token_id)>>)

\* Mutant: _transfer leaving the per-token approval as it was.
_transfer_keeps_approval(self, sender, from, to, token_id, timestamp) ==
    LET prev == _ownership_of(self, token_id)
        prev_ownership == prev.ownership
        auth == is_approved_or_owner(self, sender, from, token_id)
        s2 == [self EXCEPT !._address_data[from].balance = @ - 1]
        s3 == [s2 EXCEPT !._address_data[to].balance = @ + 1]
        s4 == [s3 EXCEPT
                 !._ownerships[token_id].addr = to,
                 !._ownerships[token_id].start_timestamp = timestamp]
        s5 == _set_next_slot(s4, token_id, from, prev_ownership)
    IN  IF prev.result # "Ok" THEN Err(self, prev.result)
        ELSE IF prev_ownership.addr # from THEN Err(self, "TransferFromIncorrectOwner")
        ELSE IF auth.result # "Ok" THEN Err(self, auth.result)
        ELSE IF ~auth.value THEN Err(self, "TransferCallerNotOwnerNorApproved")
        ELSE IF to = ZERO THEN Err(self, "TransferToZeroAddress")
        ELSE Ok(s5, <<TransferEvent(from, to, token_id)>>)

\* Mutant: _transfer adding to the balance of `to` as read before the write
\* to the balance of `from`.
_transfer_stale_balance(self, sender, from, to, token_id, timestamp) ==
    LET prev == _ownership_of(self, token_id)
        prev_ownership == prev.ownership
        auth == is_approved_or_owner(self, sender, from, token_id)
        s1 == _approve(self, to, token_id, from)
        s2 == [s1 EXCEPT !._address_data[from].balance = @ - 1]
        s3 == [s2 EXCEPT !._address_data[to].balance = s1._address_data[to].balance + 1]
        s4 == [s3 EXCEPT
                 !._ownerships[token_id].addr = to,
                 !._ownerships[token_id].start_timestamp = timestamp]
        s5 == _set_next_slot(s4, token_id, from, prev_ownership)
    IN  IF prev.result # "Ok" THEN Err(self, prev.result)
        ELSE IF prev_ownership.addr # from THEN Err(self, "TransferFromIncorrectOwner")
        ELSE IF auth.result # "Ok" THEN Err(self, auth.result)
        ELSE IF ~auth.value THEN Err(self, "TransferCallerNotOwnerNorApproved")
        ELSE IF to = ZERO THEN Err(self, "TransferToZeroAddress")
        ELSE Ok(s5, <<ApprovalEvent(from, to, token_id), TransferEvent(from, to, token_id)>>)

\* fn _transfer.  U64 balances are kept as integers congruent modulo 2^64: a
\* negative value stands for a wrapped (underflowed) balance.
_transfer(self, sender, from, to, token_id, timestamp) ==
    LET prev == _ownership_of(self, token_id)
        prev_ownership == prev.ownership
        auth == is_approved_or_owner(self, sender, from, token_id)
        s1 == _approve(self, to, token_id, from)
        s2 == [s1 EXCEPT !._address_data[from].balance = @ - 1]
        s3 == [s2 EXCEPT !._address_data[to].balance = @ + 1]
        s4 == [s3 EXCEPT
                 !._ownerships[token_id].addr = to,
                 !._ownerships[token_id].start_timestamp = timestamp]
        s5 == _set_next_slot(s4, token_id, from, prev_ownership)
    IN  IF prev.result # "Ok" THEN Err(self, prev.result)
        ELSE IF prev_ownership.addr # from THEN Err(self, "TransferFromIncorrectOwner")
        ELSE IF auth.result # "Ok" THEN Err(self, auth.result)
        ELSE IF ~auth.value THEN Err(self, "TransferCallerNotOwnerNorApproved")
        ELSE IF to = ZERO THEN Err(self, "TransferToZeroAddress")
        ELSE Ok(s5, <<ApprovalEvent(from, to, token_id), TransferEvent(from, to, token_id)>>)

\* fn transfer_from
transfer_from(self, sender, from, to, token_id, timestamp) ==
    _transfer(self, sender, from, to, token_id, timestamp)

\* Mutant: the burned slot keeps burned = false.
_burn_slot_unflagged(self, token_id, from, timestamp) ==
    [self EXCEPT
       !._ownerships[token_id].addr = from,
       !._ownerships[token_id].start_timestamp = timestamp]

\* Mutant: _burn leaving a zero addr in the burned slot.
_burn_slot_clears(self, token_id, from, timestamp) ==
    [self EXCEPT
       !._ownerships[token_id].addr = ZERO,
       !._ownerships[token_id].start_timestamp = timestamp,
       !._ownerships[token_id].burned = TRUE]

\* The slot write of _burn (lines 439-443): the burner, the time of burning, the flag.
_burn_slot(self, token_id, from, timestamp) ==
    [self EXCEPT
       !._ownerships[token_id].addr = from,
       !._ownerships[token_id].start_timestamp = timestamp,
       !._ownerships[token_id].burned = TRUE]

\* Mutant: _burn giving the id back by lowering _current_index.
_burn_count_index(self) ==
    [self EXCEPT !._burn_counter = @ + 1, !._current_index = @ - 1]

\* Mutant: _burn without the increment of _burn_counter.
_burn_count_forgotten(self) == self

\* The last write of _burn (lines 468-469): _burn_counter += 1.
_burn_count(self) == [self EXCEPT !._burn_counter = @ + 1]

\* Mutant: _burn charging the aggregate of the caller.
_burn_charges_sender(self, sender, token_id, approval_check, timestamp) ==
    LET prev == _ownership_of(self, token_id)
        prev_ownership == prev.ownership
        from == prev_ownership.addr
        auth == is_approved_or_owner(self, sender, from, token_id)
        s1 == _approve(self, ZERO, token_id, from)
        s2 == [s1 EXCEPT
                 !._address_data[sender].balance = @ - 1,
                 !._address_data[sender].number_burned = @ + 1]
        s3 == _burn_slot(s2, token_id, from, timestamp)
        s4 == _set_next_slot(s3, token_id, from, prev_ownership)
        s5 == _burn_count(s4)
    IN  IF prev.result # "Ok" THEN Err(self, prev.result)
        ELSE IF approval_check /\ auth.result # "Ok" THEN Err(self, auth.result)
        ELSE IF approval_check /\ ~auth.value
             THEN Err(self, "TransferCallerNotOwnerNorApproved")
        ELSE Ok(s5, <<ApprovalEvent(from, ZERO, token_id), TransferEvent(from, ZERO, token_id)>>)

\* Mutant: _burn without the successor materialisation.
_burn_no_successor(self, sender, token_id, approval_check, timestamp) ==
    LET prev == _ownership_of(self, token_id)
        prev_ownership == prev.ownership
        from == prev_ownership.addr
        auth == is_approved_or_owner(self, sender, from, token_id)
        s1 == _approve(self, ZERO, token_id, from)
        s2 == [s1 EXCEPT
                 !._address_data[from].balance = @ - 1,
                 !._address_data[from].number_burned = @ + 1]
        s3 == _burn_slot(s2, token_id, from, timestamp)
        s5 == _burn_count(s3)
    IN  IF prev.result # "Ok" THEN Err(self, prev.result)
        ELSE IF approval_check /\ auth.result # "Ok" THEN Err(self, auth.result)
        ELSE IF approval_check /\ ~auth.value
             THEN Err(self, "TransferCallerNotOwnerNorApproved")
        ELSE Ok(s5, <<ApprovalEvent(from, ZERO, token_id), TransferEvent(from, ZERO, token_id)>>)

\* fn _burn
_burn(self, sender, token_id, approval_check, timestamp) ==
    LET prev == _ownership_of(self, token_id)
        prev_ownership == prev.ownership
        from == prev_ownership.addr
        auth == is_approved_or_owner(self, sender, from, token_id)
        s1 == _approve(self, ZERO, token_id, from)
        s2 == [s1 EXCEPT
                 !._address_data[from].balance = @ - 1,
                 !._address_data[from].number_burned = @ + 1]
        s3 == _burn_slot(s2, token_id, from, timestamp)
        s4 == _set_next_slot(s3, token_id, from, prev_ownership)
        s5 == _burn_count(s4)
    IN  IF prev.result # "Ok" THEN Err(self, prev.result)
        ELSE IF approval_check /\ auth.result # "Ok" THEN Err(self, auth.result)
        ELSE IF approval_check /\ ~auth.value
             THEN Err(self, "TransferCallerNotOwnerNorApproved")
        ELSE Ok(s5, <<ApprovalEvent(from, ZERO, token_id), TransferEvent(from, ZERO, token_id)>>)

\* fn approve
approve(self, sender, to, token_id) ==
    LET o == owner_of(self, token_id)
        owner == o.addr
    IN  IF o.result # "Ok" THEN Err(self, o.result)
        ELSE IF to = owner THEN Err(self, "ApprovalToCurrentOwner")
        ELSE IF sender # owner /\ ~is_approved_for_all(self, owner, sender)
             THEN Err(self, "ApprovalCallerNotOwnerNorApproved")
        ELSE Ok(_approve(self, to, token_id, owner), <<ApprovalEvent(owner, to, token_id)>>)

\* Mutant: set_approval_for_all writing the approval of the operator's tokens.
set_approval_for_all_swapped(self, sender, operator, approved) ==
    Ok([self EXCEPT !._operator_approvals[operator][sender] = approved],
       <<[event |-> "ApprovalForAll", owner |-> sender, operator |-> operator,
          approved |-> approved]>>)

\* fn set_approval_for_all
set_approval_for_all(self, sender, operator, approved) ==
    Ok([self EXCEPT !._operator_approvals[sender][operator] = approved],
       <<[event |-> "ApprovalForAll", owner |-> sender, operator |-> operator,
          approved |-> approved]>>)

\* --------------------------------------------------------- ERC721A safe mint
\* The most tokens one _safe_mint call of the model mints (one callback each).
MaxCallbacks == 2

\* The accounts that have code (to.has_code()): account 2 is a receiver contract.
Contracts == {2}

\* Selector of onERC721Received, and a reply that is not the selector.
ERC721_TOKEN_RECEIVER_ID == "0x150b7a02"
NotTheSelector == "0x00000000"

\* The outcome of a callback that fails: the call of on_erc_721_received
\* returns an error, which `?` (line 389) turns into ERC721Error::ExternalCall.
Reverted == "reverted"

\* What a receiver contract does in one onERC721Received callback: the calls
\* it makes back into the token contract, then its reply.  A callback that
\* reverts leaves nothing of what it did.
\*   "mint"       mints one token to itself
\*   "burn_last"  burns the newest id of the ledger
\*   "burn"       burns the token it is receiving
\*   "transfer"   sends the token it is receiving to account 1
ReceiverBehaviours ==
    {[calls |-> <<>>, received |-> ERC721_TOKEN_RECEIVER_ID],
     [calls |-> <<>>, received |-> NotTheSelector],
     [calls |-> <<>>, received |-> Reverted],
     [calls |-> <<"mint">>, received |-> ERC721_TOKEN_RECEIVER_ID],
     [calls |-> <<"mint", "burn_last">>, received |-> ERC721_TOKEN_RECEIVER_ID],
     [calls |-> <<"burn">>, received |-> ERC721_TOKEN_RECEIVER_ID],
     [calls |-> <<"transfer">>, received |-> ERC721_TOKEN_RECEIVER_ID]}

\* One call made by the receiver `to` back into the token contract.
ReentrantCall(self, to, token_id, call, timestamp) ==
    CASE call = "mint" -> _mint(self, to, 1, timestamp)
      [] call = "burn_last" -> _burn(self, to, self._current_index - 1, TRUE, timestamp)
      [] call = "burn" -> _burn(self, to, token_id, TRUE, timestamp)
      [] OTHER -> transfer_from(self, to, to, 1, token_id, timestamp)

\* The outcome r of one reentrant call added to acc, what the calls before it
\* left: a call that fails is reverted alone and the receiver goes on; mints
\* counts the reentrant mints that succeeded.
ReentrantStep(acc, r, call) ==
    IF r.result # "Ok" THEN acc
    ELSE [self |-> r.self,
          log |-> acc.log \o r.log,
          mints |-> acc.mints + IF call = "mint" THEN 1 ELSE 0,
          callbacks |-> acc.callbacks]

\* The calls of one callback in order.
RECURSIVE ReentrantCalls(_, _, _, _, _)
ReentrantCalls(acc, to, token_id, calls, timestamp) ==
    IF calls = <<>> THEN acc
    ELSE ReentrantCalls(
             ReentrantStep(acc, ReentrantCall(acc.self, to, token_id, Head(calls), timestamp),
                           Head(calls)),
             to, token_id, Tail(calls), timestamp)

\* The test of the receiver's reply (lines 387-395), after the calls c it made.
_check_received(c, received) ==
    [self |-> c.self,
     result |-> IF received = Reverted THEN "ExternalCall"
                ELSE IF received # ERC721_TOKEN_RECEIVER_ID
                THEN "TransferToNonERC721ReceiverImplementer" ELSE "Ok",
     log |-> c.log,
     mints |-> c.mints,
     callbacks |-> c.callbacks]

\* fn _check_contract_on_erc721_received: the external call to the receiver,
\* which may reenter, then the test of its reply.  callbacks records the call:
\* the id it is made for and the storage the receiver finds.
_check_contract_on_erc721_received(self, token_id, to, behaviour, timestamp) ==
    _check_received(ReentrantCalls([self |-> self, log |-> <<>>, mints |-> 0,
                                    callbacks |-> <<[token_id |-> token_id, seen |-> self]>>],
                                   to, token_id, behaviour.calls, timestamp),
                    behaviour.received)

\* The outcome c of one callback followed by the outcome rest of the later ones.
_safe_mint_join(c, rest) ==
    [self |-> rest.self, result |-> rest.result,
     log |-> c.log \o rest.log, mints |-> c.mints + rest.mints,
     callbacks |-> c.callbacks \o rest.callbacks]

\* The callback loop of _safe_mint_with_data (lines 283-295): a do-while over
\* index up to end, left at the first error; behaviours[k] is what the receiver
\* does in the k-th callback, and c is the outcome of the callback for index.
RECURSIVE _safe_mint_loop(_, _, _, _, _, _, _)
RECURSIVE _safe_mint_next(_, _, _, _, _, _, _)
\* Mutant: the loop going on after a callback that returned an error.
_safe_mint_next_goes_on(c, to, index, end, k, behaviours, timestamp) ==
    IF index + 1 >= end THEN c
    ELSE _safe_mint_join(
             c, _safe_mint_loop(c.self, to, index + 1, end, k + 1, behaviours, timestamp))

_safe_mint_next(c, to, index, end, k, behaviours, timestamp) ==
    IF c.result # "Ok" \/ index + 1 >= end THEN c
    ELSE _safe_mint_join(
             c, _safe_mint_loop(c.self, to, index + 1, end, k + 1, behaviours, timestamp))

_safe_mint_loop(self, to, index, end, k, behaviours, timestamp) ==
    _safe_mint_next(
        _check_contract_on_erc721_received(self, index, to, behaviours[k], timestamp),
        to, index, end, k, behaviours, timestamp)

\* Mutant: the test after the callbacks comparing total_supply instead of
\* _current_index.
_safe_mint_guard_supply(before, after) == total_supply(after) # total_supply(before)

\* The test after the callbacks (line 297): _current_index differs from end,
\* its value before the callbacks.
_safe_mint_guard(before, after) == after._current_index # before._current_index

\* The end of _safe_mint_with_data (lines 297-302) after the outer mint m and the
\* callbacks cb.
_safe_mint_end(m, cb) ==
    IF cb.result # "Ok"
    THEN [self |-> cb.self, result |-> cb.result, log |-> <<>>, mints |-> cb.mints,
          callbacks |-> cb.callbacks]
    ELSE IF _safe_mint_guard(m.self, cb.self)
    THEN [self |-> cb.self, result |-> "ReentrancyGuard", log |-> <<>>, mints |-> cb.mints,
          callbacks |-> cb.callbacks]
    ELSE [self |-> cb.self, result |-> "Ok", log |-> m.log \o cb.log, mints |-> cb.mints,
          callbacks |-> cb.callbacks]

\* _safe_mint_with_data after its call of _mint, whose outcome is m.
_safe_mint_callbacks(m, to, quantity, behaviours, timestamp) ==
    IF m.result # "Ok"
    THEN [self |-> m.self, result |-> m.result, log |-> <<>>, mints |-> 0, callbacks |-> <<>>]
    ELSE IF to \notin Contracts
    THEN [self |-> m.self, result |-> "Ok", log |-> m.log, mints |-> 0, callbacks |-> <<>>]
    ELSE _safe_mint_end(
             m, _safe_mint_loop(m.self, to, m.self._current_index - quantity,
                                m.self._current_index, 1, behaviours, timestamp))

\* fn _safe_mint_with_data.  The result carries mints, the number of reentrant
\* mints that succeeded during the callbacks.
_safe_mint_with_data(self, to, quantity, behaviours, timestamp) ==
    _safe_mint_callbacks(_mint(self, to, quantity, timestamp), to, quantity, behaviours,
                         timestamp)

\* The number of mints the behaviours ask for.
RequestedMints(behaviours) ==
    Cardinality({k \in DOMAIN behaviours : "mint" \in {behaviours[k].calls[i] : i \in DOMAIN behaviours[k].calls}})

\* The reply of a receiver that does nothing else.
Accepts == [calls |-> <<>>, received |-> ERC721_TOKEN_RECEIVER_ID]

\* The inputs of a _safe_mint call the model makes: every id minted fits the
\* ledger, and no callback reaches an account without code.
SafeMintFits(self, to, quantity, behaviours) ==
    /\ self._current_index + quantity + RequestedMints(behaviours) <= MaxIndex
    /\ to \notin Contracts => \A k \in DOMAIN behaviours : behaviours[k] = Accepts

\* ----------------------------------------------------- ERC721A safe transfer
\* safe_transfer_from_with_data after its call of _transfer, whose outcome is t
\* (lines 595-602): the callback when to has code, then the result.
_safe_transfer_callback(t, to, token_id, behaviour, timestamp) ==
    LET cb == _check_contract_on_erc721_received(t.self, token_id, to, behaviour, timestamp)
    IN  IF t.result # "Ok"
        THEN [self |-> t.self, result |-> t.result, log |-> <<>>, mints |-> 0,
              callbacks |-> <<>>]
        ELSE IF to \notin Contracts
        THEN [self |-> t.self, result |-> "Ok", log |-> t.log, mints |-> 0,
              callbacks |-> <<>>]
        ELSE [self |-> cb.self, result |-> cb.result,
              log |-> IF cb.result = "Ok" THEN t.log \o cb.log ELSE <<>>,
              mints |-> cb.mints, callbacks |-> cb.callbacks]

\* Mutant: safe_transfer_from_with_data writing the successor slot after the
\* callback instead of before it.
safe_transfer_from_successor_late(self, sender, from, to, token_id, behaviour, timestamp) ==
    LET prev_ownership == _ownership_of(self, token_id).ownership
        t == _transfer(self, sender, from, to, token_id, timestamp)
        early == [t EXCEPT !.self = [@ EXCEPT !._ownerships[token_id + 1] =
                                                  self._ownerships[token_id + 1]]]
        r == _safe_transfer_callback(early, to, token_id, behaviour, timestamp)
    IN  IF t.result # "Ok" THEN r
        ELSE [r EXCEPT !.self = _set_next_slot(@, token_id, from, prev_ownership)]

\* fn safe_transfer_from_with_data (safe_transfer_from passes empty data)
safe_transfer_from_with_data(self, sender, from, to, token_id, behaviour, timestamp) ==
    _safe_transfer_callback(_transfer(self, sender, from, to, token_id, timestamp),
                            to, token_id, behaviour, timestamp)

\* The inputs of a safe_transfer_from call the model makes: a reentrant mint
\* fits the ledger, and no callback reaches an account without code.
SafeTransferFits(self, to, behaviour) ==
    /\ self._current_index + RequestedMints(<<behaviour>>) <= MaxIndex
    /\ to \notin Contracts => behaviour = Accepts

\* ------------------------------------------------------------- ERC20 permit
\* keccak and the ABI encoding are collision free: a hash is modelled as the
\* tuple of the fields it is computed from.
PERMIT_TYPEHASH == "Permit(address owner,address spender,uint256 value,uint256 nonce,uint256 deadline)"
EIP_712_DOMAIN_HASH == "EIP712Domain(string name,string version,uint256 chainId,address verifyingContract)"
VERSION_HASH == "1"

\* fn _compute_domain_separator: name, chain id and contract address are fixed.
_compute_domain_separator ==
    <<EIP_712_DOMAIN_HASH, "NAME", VERSION_HASH, "chainid", "contract">>

\* The struct hash of permit (lines 248-257).
struct_hash(owner, spender, value, nonce, deadline) ==
    <<PERMIT_TYPEHASH, owner, spender, value, nonce, deadline>>

\* The digest of permit (lines 259-263).
signed_hash(owner, spender, value, nonce, deadline) ==
    <<"0x1901", _compute_domain_separator,
      struct_hash(owner, spender, value, nonce, deadline)>>

\* A signature (r, s) is the record [key, digest, recid]: made with the key of
\* address `key` over `digest`, with recovery id `recid`.  key = NOKEY is an
\* (r, s) that does not parse; key = ZERO is one for which the host's
\* precompile answers with a zero word.
Signature(key, digest, recid) == [key |-> key, digest |-> digest, recid |-> recid]

\* The ecrecover precompile at address 0x01, as the static call of
\* PrecompileEcRecover::ecrecover_implementation sees it: no return data (an
\* error) unless v is 27 or 28 and (r, s) parses; the signer's address for the
\* signed digest and recovery id; the address of an unrelated key for any other
\* digest or recovery id (ECDSA: a signature binds one digest).
PrecompileEcRecover_ecrecover_implementation(input) ==
    IF input.v \notin {27, 28} \/ input.rs.key = NOKEY
    THEN [result |-> "EcdsaError", addr |-> ZERO]
    ELSE IF input.message_hash = input.rs.digest /\ input.v - 27 = input.rs.recid
    THEN [result |-> "Ok", addr |-> input.rs.key]
    ELSE [result |-> "Ok", addr |-> STRANGER]

\* Mutant: only v = 0 is moved to the host's convention.
ecrecover_v_byte_zero_only(v) == IF v < 1 THEN v + 27 ELSE v

\* Byte 63 of the input built by EcRecoverTrait::ecrecover (lines 46-50): v of
\* 0 or 1 becomes 27 or 28, any other v is passed on as it is.
ecrecover_v_byte(v) == IF v <= 1 THEN v + 27 ELSE v

\* EcRecoverTrait::ecrecover: builds the precompile input.
PrecompileEcRecover_ecrecover(message_hash, v, rs) ==
    PrecompileEcRecover_ecrecover_implementation(
        [message_hash |-> message_hash,
         v |-> ecrecover_v_byte(v),
         rs |-> rs])

\* ------------------------------------------- ecrecover, native implementation
\* The digests handed to ecrecover.
RecoverDigests == {<<"keccak256", "Hello, Stylus!">>, <<"keccak256", "Hello, Ethereum!">>}

\* The values of the u8 argument v handed to ecrecover.
RecoverIds == {0, 1, 2, 26, 27, 28, 29, 255}

\* A 32-byte half of a signature that Signature::from_slice rejects (zero, or
\* not below the group order).
OutOfRange == [half |-> "none"]

\* The halves of the signatures over a digest.  Signing digest with the key of
\* account key gives (SigR, SigS with high = FALSE) and the recovery id recid,
\* which the nonce of the signing decides; s is then in the low half of the
\* order.  (SigR, SigS with high = TRUE) is the same signature with s replaced
\* by order - s.
SigR(key, digest, recid) == [half |-> "r", of |-> Signature(key, digest, recid)]
SigS(key, digest, recid, high) ==
    [half |-> "s", of |-> Signature(key, digest, recid), high |-> high]

\* The 32-byte words handed to ecrecover as r and as s.
RecoverHalves ==
    {OutOfRange}
        \cup {SigR(key, digest, recid) :
                 key \in Accounts, digest \in RecoverDigests, recid \in {0, 1}}
        \cup {SigS(key, digest, recid, high) :
                 key \in Accounts, digest \in RecoverDigests, recid \in {0, 1},
                 high \in BOOLEAN}

\* The uncompressed encoding of the public key of an account: the prefix byte
\* 0x04, then the 64 bytes of the coordinates.
PublicKey(key) == <<"0x04", <<"xy", key>>>>

\* keccak256(bytes)[12..]: the address of an account is that of the
\* coordinates of its key; any other bytes hash to an address no account has.
keccak256_address(bytes) ==
    IF Len(bytes) = 2 /\ bytes[1] = "xy" /\ bytes[2] \in Accounts THEN bytes[2]
    ELSE STRANGER

\* Mutant: the input of ecrecover with r and s exchanged.
EcRecoverInput_swapped(message_hash, v, r, s) ==
    [message_hash |-> message_hash, pad |-> 0, v |-> ecrecover_v_byte(v), r |-> s, s |-> r]

\* The 128-byte input built by EcRecoverTrait::ecrecover (lines 39-54):
\* message_hash is bytes 0..31, pad is bytes 32..62 read as a number, v is
\* byte 63, r is bytes 64..95 and s is bytes 96..127.
EcRecoverInput(message_hash, v, r, s) ==
    [message_hash |-> message_hash, pad |-> 0, v |-> ecrecover_v_byte(v), r |-> r, s |-> s]

\* Mutant: the change of s by the normalisation goes unnoticed, so the recovery
\* id is kept.
normalize_s_unnoticed(s) == FALSE

\* sig.normalize_s() (lines 94-97): Some when s is in the high half.
normalize_s(s) == s.high

\* VerifyingKey::recover_from_prehash (lines 101-102) on a signature in low-s
\* form: the key of the signer for the digest signed and the recovery id of the
\* signing, the key of a stranger for anything else.
recover_from_prehash(msg, r, s, recid) ==
    IF /\ r.half = "r"
       /\ s.half = "s"
       /\ r.of = s.of
       /\ msg = r.of.digest
       /\ recid = r.of.recid
    THEN PublicKey(r.of.key)
    ELSE PublicKey(STRANGER)

\* RustEcRecover::ecrecover_implementation, the implementation of the tests.
\* The recovery id is byte 63 less 27, xor 1 when normalize_s changed s.
RustEcRecover_ecrecover_implementation(input) ==
    IF ~(input.pad = 0 /\ input.v \in {27, 28})
    THEN [result |-> "Ok", addr |-> ZERO]
    ELSE IF input.r = OutOfRange \/ input.s = OutOfRange
    THEN [result |-> "EcdsaError", addr |-> ZERO]
    ELSE LET recid == input.v - 27
             flipped == IF input.s.half = "s" /\ normalize_s(input.s)
                        THEN 1 - recid ELSE recid
             recovered_key == recover_from_prehash(input.message_hash, input.r,
                                                   input.s, flipped)
         IN  [result |-> "Ok", addr |-> keccak256_address(recovered_key[2])]

\* RustEcRecover::ecrecover, the provided method of EcRecoverTrait.
RustEcRecover_ecrecover(message_hash, v, r, s) ==
    RustEcRecover_ecrecover_implementation(EcRecoverInput(message_hash, v, r, s))

\* Approval event of the ERC20 contract.
ERC20Approval(owner, spender, value) ==
    [event |-> "Approval", owner |-> owner, spender |-> spender, value |-> value]

\* Mutant: permit that leaves the nonce as it is.
_permit_nonce_kept(self, owner) == self

\* The nonce consumption of permit (lines 245-246).
_permit_use_nonce(self, owner) == [self EXCEPT !.nonces[owner] = @ + 1]

\* Mutant: the authorization test without the comparison with owner.
_permit_authorized_any(recovered_address, owner) == ~(recovered_address = ZERO)

\* The authorization test of permit (line 270), negated: the call goes on.
_permit_authorized(recovered_address, owner) ==
    ~(recovered_address = ZERO \/ recovered_address # owner)

\* Mutant: the expiry test with >= for >.
_permit_expired_early(timestamp, deadline) == timestamp >= deadline

\* The expiry test of permit (line 241).
_permit_expired(timestamp, deadline) == timestamp > deadline

\* Mutant: the allowance write adding value to the allowance it finds.
_permit_add_allowance(self, recovered_address, spender, value) ==
    [self EXCEPT !.allowances[recovered_address][spender] = @ + value]

\* The allowance write of permit (lines 274-277), under recovered_address.
_permit_set_allowance(self, recovered_address, spender, value) ==
    [self EXCEPT !.allowances[recovered_address][spender] = value]

\* Mutant: permit building the struct hash from the nonce it has just written.
permit_hash_after_write(self, owner, spender, value, deadline, v, rs, timestamp) ==
    LET s1 == _permit_use_nonce(self, owner)
        nonce == s1.nonces[owner]
        recovered == PrecompileEcRecover_ecrecover(
                         signed_hash(owner, spender, value, nonce, deadline), v, rs)
        recovered_address == recovered.addr
        s2 == _permit_set_allowance(s1, recovered_address, spender, value)
    IN  IF _permit_expired(timestamp, deadline) THEN Err(self, "PermitExpired")
        ELSE IF recovered.result # "Ok" THEN Err(s1, "InvalidPermit")
        ELSE IF ~_permit_authorized(recovered_address, owner) THEN Err(s1, "InvalidPermit")
        ELSE Ok(s2, <<ERC20Approval(owner, spender, value)>>)

\* fn permit.  An error return after the nonce write leaves the write in the
\* storage the handler returns: the handler does not undo it.
permit(self, owner, spender, value, deadline, v, rs, timestamp) ==
    LET nonce == self.nonces[owner]
        s1 == _permit_use_nonce(self, owner)
        recovered == PrecompileEcRecover_ecrecover(
                         signed_hash(owner, spender, value, nonce, deadline), v, rs)
        recovered_address == recovered.addr
        s2 == _permit_set_allowance(s1, recovered_address, spender, value)
    IN  IF _permit_expired(timestamp, deadline) THEN Err(self, "PermitExpired")
        ELSE IF recovered.result # "Ok" THEN Err(s1, "InvalidPermit")
        ELSE IF ~_permit_authorized(recovered_address, owner) THEN Err(s1, "InvalidPermit")
        ELSE Ok(s2, <<ERC20Approval(owner, spender, value)>>)

\* ------------------------------------------------------------ basic ERC721
\* The largest token id of the basic ERC721 contract.
MaxToken == 2
\* Token ids of the basic ERC721 contract.
Tokens == 0 .. MaxToken

\* fn owner_of of the basic ERC721 contract
erc721_owner_of(self, token_id) ==
    IF self.owners[token_id] = ZERO
    THEN [result |-> "InvalidTokenId", addr |-> ZERO, data |-> [token_id |-> token_id]]
    ELSE [result |-> "Ok", addr |-> self.owners[token_id]]

\* fn require_authorized_to_spend, msg::sender() being sender
erc721_require_authorized_to_spend(self, sender, from, token_id) ==
    LET o == erc721_owner_of(self, token_id)
        owner == o.addr
    IN  IF o.result # "Ok" THEN ErrData(self, o.result, o.data)
        ELSE IF from # owner
        THEN ErrData(self, "NotOwner",
                     [from |-> from, token_id |-> token_id, real_owner |-> owner])
        ELSE IF sender = owner THEN Ok(self, <<>>)
        ELSE IF self.approved_for_all[owner][sender] THEN Ok(self, <<>>)
        ELSE IF sender = self.approved[token_id] THEN Ok(self, <<>>)
        ELSE ErrData(self, "NotApproved",
                     [owner |-> owner, spender |-> sender, token_id |-> token_id])

\* Mutant: _transfer of the basic ERC721 contract that reads both balances
\* before it writes either.
erc721__transfer_stale(self, token_id, from, to) ==
    LET previous_owner == self.owners[token_id]
        from_balance == self.balance[from]
        to_balance == self.balance[to]
        s1 == [self EXCEPT !.owners[token_id] = to]
        s2 == [s1 EXCEPT !.balance[from] = from_balance - 1]
        s3 == [s2 EXCEPT !.balance[to] = to_balance + 1]
        s4 == [s3 EXCEPT !.approved[token_id] = ZERO]
    IN  IF previous_owner # from
        THEN ErrData(self, "NotOwner",
                     [from |-> from, token_id |-> token_id, real_owner |-> previous_owner])
        ELSE Ok(s4, <<TransferEvent(from, to, token_id)>>)

\* fn _transfer of the basic ERC721 contract: the balance of `to` is read
\* after the balance of `from` is written.
erc721__transfer(self, token_id, from, to) ==
    LET previous_owner == self.owners[token_id]
        s1 == [self EXCEPT !.owners[token_id] = to]
        s2 == [s1 EXCEPT !.balance[from] = @ - 1]
        s3 == [s2 EXCEPT !.balance[to] = @ + 1]
        s4 == [s3 EXCEPT !.approved[token_id] = ZERO]
    IN  IF previous_owner # from
        THEN ErrData(self, "NotOwner",
                     [from |-> from, token_id |-> token_id, real_owner |-> previous_owner])
        ELSE Ok(s4, <<TransferEvent(from, to, token_id)>>)

\* Mutant: mint over a token that has an owner.
erc721_mint_over(self, to, token_id) ==
    IF to = ZERO THEN ErrData(self, "TransferToZero", [token_id |-> token_id])
    ELSE Ok([[self EXCEPT !.owners[token_id] = to] EXCEPT !.balance[to] = @ + 1],
            <<TransferEvent(ZERO, to, token_id)>>)

\* fn mint of the basic ERC721 contract
erc721_mint(self, to, token_id) ==
    LET s1 == [self EXCEPT !.owners[token_id] = to]
        s2 == [s1 EXCEPT !.balance[to] = @ + 1]
    IN  IF to = ZERO THEN ErrData(self, "TransferToZero", [token_id |-> token_id])
        ELSE IF self.owners[token_id] # ZERO THEN Err(self, "AlreadyMinted")
        ELSE Ok(s2, <<TransferEvent(ZERO, to, token_id)>>)

\* fn burn of the basic ERC721 contract, msg::sender() being sender
erc721_burn(self, sender, token_id) ==
    LET owner == self.owners[token_id]
        s1 == [self EXCEPT !.balance[owner] = @ - 1]
        s2 == [s1 EXCEPT !.owners[token_id] = ZERO]
        s3 == [s2 EXCEPT !.approved[token_id] = ZERO]
    IN  IF owner = ZERO THEN ErrData(self, "InvalidTokenId", [token_id |-> token_id])
        ELSE IF /\ sender # owner
                /\ ~self.approved_for_all[owner][sender]
                /\ sender # self.approved[token_id]
        THEN ErrData(self, "NotApproved",
                     [owner |-> owner, spender |-> sender, token_id |-> token_id])
        ELSE Ok(s3, <<TransferEvent(owner, ZERO, token_id)>>)

\* The end of transfer_from after require_authorized_to_spend returned a.
erc721_transfer_authorized(self, a, token_id, from, to) ==
    IF a.result # "Ok" THEN a ELSE erc721__transfer(self, token_id, from, to)

\* fn transfer_from of the basic ERC721 contract
erc721_transfer_from(self, sender, from, to, token_id) ==
    IF to = ZERO THEN ErrData(self, "TransferToZero", [token_id |-> token_id])
    ELSE erc721_transfer_authorized(
             self, erc721_require_authorized_to_spend(self, sender, from, token_id),
             token_id, from, to)

\* fn approve of the basic ERC721 contract
erc721_approve(self, sender, approved, token_id) ==
    LET o == erc721_owner_of(self, token_id)
        owner == o.addr
    IN  IF o.result # "Ok" THEN ErrData(self, o.result, o.data)
        ELSE IF sender # owner /\ ~self.approved_for_all[owner][sender]
        THEN ErrData(self, "NotApproved",
                     [owner |-> owner, spender |-> sender, token_id |-> token_id])
        ELSE Ok([self EXCEPT !.approved[token_id] = approved],
                <<ApprovalEvent(owner, approved, token_id)>>)

\* ------------------------------------------------------------------- Init
\* An id that no _mint call has minted.
NoBatch == [start |-> 0, quantity |-> 0]

Init ==
    /\ erc721a = [_current_index |-> 0,
                  _burn_counter |-> 0,
                  _ownerships |-> [t \in TokenIds |-> EmptyOwnership],
                  _address_data |-> [a \in Address |-> EmptyAddressData],
                  _token_approvals |-> [t \in TokenIds |-> ZERO],
                  _operator_approvals |-> [a \in Address |-> [b \in Address |-> FALSE]]]
    /\ erc20 = [total_supply |-> 0,
                 balances |-> [a \in Address |-> 0],
                 allowances |-> [a \in Address |-> [b \in Address |-> 0]],
                 nonces |-> [a \in Address |-> 0]]
    /\ batch_of = [t \in TokenIds |-> NoBatch]
    /\ mock_total_supply = 0
    /\ erc721 = [owners |-> [t \in Tokens |-> ZERO],
                  approved |-> [t \in Tokens |-> ZERO],
                  balance |-> [a \in Address |-> 0],
                  approved_for_all |-> [a \in Address |-> [b \in Address |-> FALSE]]]
    /\ consumed = <<>>
    /\ now = 0
    /\ last = [op |-> "init", args |-> <<>>, result |-> "Ok", log |-> <<>>, changed |-> {},
               replay |-> FALSE]

\* ---------------------------------------------------------------- actions
\* One successful call of an ERC721A handler: the storage becomes the handler's
\* and the ghost records the call.  A call that returns an error writes nothing
\* (every error return of these handlers precedes their first write) and is no step.
Call(op, args, r) ==
    /\ r.result = "Ok"
    /\ erc721a' = r.self
    /\ last' = [op |-> op, args |-> args, result |-> r.result, log |-> r.log,
                changed |-> {t \in TokenIds : r.self._ownerships[t] # erc721a._ownerships[t]},
                replay |-> FALSE]
    /\ UNCHANGED <<mock_total_supply, batch_of, erc721, erc20, now, consumed>>

\* The block timestamp advances between calls.
Tick ==
    /\ now < MaxTime
    /\ now' = now + 1
    /\ UNCHANGED <<mock_total_supply, batch_of, erc721, erc721a, erc20, last, consumed>>

\* ERC721A _mint(to, quantity), as a contract's mint entry point calls it.
Mint ==
    \E to \in Address, quantity \in 0 .. MaxQuantity :
        /\ erc721a._current_index + quantity <= MaxIndex
        /\ Call("mint", <<to, quantity>>, _mint(erc721a, to, quantity, now))

\* ERC721A transfer_from(from, to, token_id) sent by sender.
Transfer ==
    \E sender \in Accounts, from \in Address, to \in Address, token_id \in TokenIds :
        Call("transfer", <<sender, from, to, token_id>>,
             transfer_from(erc721a, sender, from, to, token_id, now))

\* ERC721A _burn(token_id, approval_check) sent by sender.
Burn ==
    \E sender \in Accounts, token_id \in TokenIds, approval_check \in BOOLEAN :
        Call("burn", <<sender, token_id, approval_check>>,
             _burn(erc721a, sender, token_id, approval_check, now))

\* ERC721A approve(to, token_id) sent by sender.
Approve ==
    \E sender \in Accounts, to \in Address, token_id \in TokenIds :
        Call("approve", <<sender, to, token_id>>, approve(erc721a, sender, to, token_id))

\* ERC721A set_approval_for_all(operator, approved) sent by sender.
SetApprovalForAll ==
    \E sender \in Accounts, approved \in BOOLEAN :
        \E operator \in Accounts \ {sender} :
            Call("set_approval_for_all", <<sender, operator, approved>>,
                 set_approval_for_all(erc721a, sender, operator, approved))

\* ERC721A _mint(to, quantity) with the ghost batch_of: the new ids form one
\* batch (lines 226-264).
MintTracked ==
    \E to \in Accounts, quantity \in 1 .. MaxQuantity :
        /\ erc721a._current_index + quantity <= MaxIndex
        /\ _mint(erc721a, to, quantity, now).result = "Ok"
        /\ erc721a' = _mint(erc721a, to, quantity, now).self
        /\ batch_of' = [t \in TokenIds |->
                           IF t \in erc721a._current_index .. erc721a._current_index + quantity - 1
                           THEN [start |-> erc721a._current_index, quantity |-> quantity]
                           ELSE batch_of[t]]
        /\ last' = [op |-> "mint", args |-> <<to, quantity>>, result |-> "Ok",
                    log |-> _mint(erc721a, to, quantity, now).log,
                    changed |-> {erc721a._current_index}, replay |-> FALSE]
        /\ UNCHANGED <<mock_total_supply, erc721, erc20, now, consumed>>

\* The batch lifecycle with the batches tracked.
NextBatches == MintTracked \/ Transfer \/ Burn

SpecBatches == Init /\ [][NextBatches]_vars

\* The batch lifecycle of the ledger: mint, transfer, burn.
Next == Mint \/ Transfer \/ Burn

Spec == Init /\ [][Next]_vars

\* The caller's choice of the arguments (message_hash, v, r, s) of one call of
\* ecrecover.
ChooseRecover ==
    /\ last.op = "init"
    /\ \E message_hash \in RecoverDigests, v \in RecoverIds, r \in RecoverHalves,
          s \in RecoverHalves :
           last' = [op |-> "arguments",
                    args |-> <<message_hash, v, r, s>>,
                    result |-> "Ok", log |-> <<>>, changed |-> {}, replay |-> FALSE]
    /\ UNCHANGED <<mock_total_supply, batch_of, erc721, erc721a, erc20, now, consumed>>

\* The outcome of ecrecover on the arguments chosen: last keeps the arguments,
\* the input built and the address returned.
RecoverCall(args, input, r) ==
    /\ last' = [op |-> "ecrecover", args |-> args, result |-> r.result, log |-> <<>>,
                changed |-> {}, replay |-> FALSE, input |-> input, addr |-> r.addr]
    /\ UNCHANGED <<mock_total_supply, batch_of, erc721, erc721a, erc20, now, consumed>>

\* The call ecrecover(message_hash, v, r, s) of the native implementation.
Recover ==
    /\ last.op = "arguments"
    /\ RecoverCall(last.args,
                   EcRecoverInput(last.args[1], last.args[2], last.args[3], last.args[4]),
                   RustEcRecover_ecrecover(last.args[1], last.args[2], last.args[3],
                                           last.args[4]))

\* The recovery primitive alone: one call of ecrecover on any arguments.
NextRecover == ChooseRecover \/ Recover

SpecRecover == Init /\ [][NextRecover]_vars

\* The most tokens minted in the specification of the ledger with approvals.
MaxApproved == 2

\* ERC721A _mint(to, quantity) while the ledger holds at most MaxApproved ids.
MintFew ==
    \E to \in Address, quantity \in 0 .. MaxApproved :
        /\ erc721a._current_index + quantity <= MaxApproved
        /\ Call("mint", <<to, quantity>>, _mint(erc721a, to, quantity, now))

\* The ledger with its approvals: mint, transfer, burn, approve and
\* set_approval_for_all.
NextApprovals == MintFew \/ Transfer \/ Burn \/ Approve \/ SetApprovalForAll

SpecApprovals == Init /\ [][NextApprovals]_vars

\* ERC721A _safe_mint(to, quantity): an entry point of a contract built on
\* ERC721A.  When it returns an error the host reverts every write of the call,
\* those of the reentrant calls included.  last.args tells the receiver, the
\* quantity, the number of reentrant mints that succeeded and whether every
\* callback replied with the selector; last.callbacks tells the callbacks that
\* were made and last.replies what the receiver does in each callback it gets.
SafeMintCall(to, quantity, behaviours, r) ==
    /\ erc721a' = IF r.result = "Ok" THEN r.self ELSE erc721a
    /\ last' = [op |-> "safe_mint",
                args |-> <<to, quantity, r.mints,
                           \A k \in DOMAIN behaviours :
                               behaviours[k].received = ERC721_TOKEN_RECEIVER_ID>>,
                result |-> r.result,
                log |-> r.log,
                callbacks |-> r.callbacks,
                replies |-> [k \in DOMAIN behaviours |-> behaviours[k].received],
                changed |-> {t \in TokenIds : erc721a'._ownerships[t] # erc721a._ownerships[t]},
                replay |-> FALSE]
    /\ UNCHANGED <<mock_total_supply, batch_of, erc721, erc20, now, consumed>>

\* ERC721A _safe_mint(to, quantity) with the behaviour of the receiver in each
\* callback.
SafeMint ==
    \E to \in Address, quantity \in 0 .. MaxCallbacks :
        \E behaviours \in [1 .. quantity -> ReceiverBehaviours] :
            /\ SafeMintFits(erc721a, to, quantity, behaviours)
            /\ SafeMintCall(to, quantity, behaviours,
                            _safe_mint_with_data(erc721a, to, quantity, behaviours, now))

\* ERC721A safe_transfer_from(from, to, token_id) sent by sender, with the
\* behaviour of the receiver in the callback, for the calls that get past the
\* checks of _transfer.  When the call returns an error the host reverts every
\* write of it, those of the reentrant calls included.  last.callbacks tells
\* the callback that was made and last.left the storage the call ended with,
\* before any revert.
SafeTransferCall(sender, from, to, token_id, behaviour, r) ==
    /\ erc721a' = IF r.result = "Ok" THEN r.self ELSE erc721a
    /\ last' = [op |-> "safe_transfer",
                args |-> <<sender, from, to, token_id>>,
                result |-> r.result,
                log |-> r.log,
                callbacks |-> r.callbacks,
                behaviour |-> behaviour,
                left |-> r.self,
                changed |-> {t \in TokenIds : erc721a'._ownerships[t] # erc721a._ownerships[t]},
                replay |-> FALSE]
    /\ UNCHANGED <<mock_total_supply, batch_of, erc721, erc20, now, consumed>>

SafeTransfer ==
    \E sender \in Accounts, from \in Accounts, to \in Address, token_id \in TokenIds :
        \E behaviour \in ReceiverBehaviours :
            /\ SafeTransferFits(erc721a, to, behaviour)
            /\ _transfer(erc721a, sender, from, to, token_id, now).result = "Ok"
            /\ SafeTransferCall(sender, from, to, token_id, behaviour,
                                safe_transfer_from_with_data(erc721a, sender, from, to,
                                                             token_id, behaviour, now))

\* The ledger with safe transfers: mint, safe_transfer_from and burn.
NextSafeTransfer == MintFew \/ SafeTransfer \/ Burn

SpecSafeTransfer == Init /\ [][NextSafeTransfer]_vars

\* The ledger minted through _safe_mint, with burns.
NextSafeMint == SafeMint \/ Burn

SpecSafeMint == Init /\ [][NextSafeMint]_vars

\* The account whose allowances the permit calls of the model grant.
Spenders == {2}

\* The (v, r, s) handed to permit(owner, spender, value, deadline, ...) while
\* the owner's nonce is `nonce`:
\*  - v = 27 with a signature over the digest of exactly this call, made by an
\*    account, by a stranger, unparsable (NOKEY), or answered with a zero word;
\*  - v = 27 with the owner's signature over the same permit with the nonce
\*    before or after, or with another value;
\*  - the owner's signature over the digest of this call with every form of v.
\* No key signs for the zero address: as owner it gets the first kind only.
Submissions(owner, spender, value, deadline, nonce) ==
    LET exact == signed_hash(owner, spender, value, nonce, deadline)
        keys == {<<27, Signature(key, exact, 0)>> :
                    key \in Accounts \cup {ZERO, STRANGER, NOKEY}}
    IN  IF owner = ZERO THEN keys
        ELSE keys
             \cup {<<27, Signature(owner, signed_hash(owner, spender, value, n, deadline), 0)>> :
                     n \in {nonce - 1, nonce + 1} \cap Nonces}
             \cup {<<27, Signature(owner, signed_hash(owner, spender, x, nonce, deadline), 0)>> :
                     x \in {(value + 1) % (MaxValue + 1)}}
             \cup {<<v, Signature(owner, exact, 0)>> : v \in {0, 1, 27, 28, 2}}

\* The ghosts of a permit call.  With `replays`, a successful call may be kept
\* in consumed for a later replay and last tells whether the call resubmitted
\* the one kept; without, last records the arguments of a successful call
\* (without the signature) and the deadline of a failed one.
PermitGhosts(args, r, track, replays) ==
    /\ consumed' = IF track THEN args ELSE consumed
    /\ last' = [op |-> "permit",
                args |-> IF replays THEN <<>>
                         ELSE IF r.result = "Ok"
                              THEN <<args[1], args[2], args[3], args[4]>>
                              ELSE <<args[4]>>,
                result |-> r.result,
                log |-> IF replays THEN <<>> ELSE r.log,
                changed |-> {},
                replay |-> replays /\ args = consumed]

\* ERC20 permit(owner, spender, value, deadline, v, r, s).  permit is an entry
\* point of the contract: when it returns an error the host reverts every write
\* of the call, the nonce write included.
PermitCall(replays) ==
    \E owner \in Address, spender \in Spenders, value \in Values, deadline \in Timestamps :
        /\ erc20.nonces[owner] < MaxNonce
        /\ \E sub \in Submissions(owner, spender, value, deadline, erc20.nonces[owner]) :
              LET r == permit(erc20, owner, spender, value, deadline, sub[1], sub[2], now)
              IN  /\ erc20' = IF r.result = "Ok" THEN r.self ELSE erc20
                  /\ \E track \in IF replays /\ r.result = "Ok" THEN BOOLEAN ELSE {FALSE} :
                        PermitGhosts(<<owner, spender, value, deadline, sub[1], sub[2]>>,
                                     r, track, replays)
                  /\ UNCHANGED <<mock_total_supply, batch_of, erc721, erc721a, now>>

\* A call kept in consumed is submitted again, with its own (v, r, s).
Resubmit ==
    /\ consumed # <<>>
    /\ LET r == permit(erc20, consumed[1], consumed[2], consumed[3], consumed[4],
                       consumed[5], consumed[6], now)
       IN  /\ erc20' = IF r.result = "Ok" THEN r.self ELSE erc20
           /\ PermitGhosts(consumed, r, FALSE, TRUE)
           /\ UNCHANGED <<mock_total_supply, batch_of, erc721, erc721a, now>>

\* Mutant: approve that also resets the sender's nonce.
erc20_approve_resets_nonce(self, sender, spender, value) ==
    Ok([self EXCEPT !.allowances[sender][spender] = value, !.nonces[sender] = 0],
       <<ERC20Approval(sender, spender, value)>>)

\* fn approve of the ERC20 contract
erc20_approve(self, sender, spender, value) ==
    Ok([self EXCEPT !.allowances[sender][spender] = value],
       <<ERC20Approval(sender, spender, value)>>)

\* ERC20 approve(spender, value) sent by sender: the owner sets the allowance anew.
ApproveCall(replays) ==
    \E sender \in Accounts, spender \in Spenders, value \in Values :
        LET r == erc20_approve(erc20, sender, spender, value)
        IN  /\ erc20' = r.self
            /\ last' = [op |-> "approve",
                        args |-> IF replays THEN <<>> ELSE <<sender, spender, value>>,
                        result |-> r.result,
                        log |-> IF replays THEN <<>> ELSE r.log,
                        changed |-> {}, replay |-> FALSE]
            /\ UNCHANGED <<mock_total_supply, batch_of, erc721, erc721a, now, consumed>>

Permit == PermitCall(FALSE)
ApproveERC20 == ApproveCall(FALSE)

\* The permit protocol: permit and approve calls as the block timestamp advances.
NextPermit == Tick \/ Permit \/ ApproveERC20

SpecPermit == Init /\ [][NextPermit]_vars

PermitTracked == PermitCall(TRUE)
ApproveTracked == ApproveCall(TRUE)

\* The permit protocol with one successful permit kept and submitted again.
NextReplay == Tick \/ PermitTracked \/ ApproveTracked \/ Resubmit

SpecReplay == Init /\ [][NextReplay]_vars

\* ------------------------------------------------------------ ERC20 ledger
\* The most tokens the model mints: balances stay far below 2^256.
MaxSupply == 2
\* The most permits one owner is granted in the ERC20 specification.
MaxPermits == 2

\* Transfer event of the ERC20 contract.
ERC20Transfer(from, to, value) ==
    [event |-> "Transfer", from |-> from, to |-> to, value |-> value]

\* Mutant: _transfer that reads both balances before it writes either.
erc20__transfer_stale(self, from, to, value) ==
    LET old_sender_balance == self.balances[from]
        old_to_balance == self.balances[to]
        s1 == [self EXCEPT !.balances[from] = old_sender_balance - value]
        s2 == [s1 EXCEPT !.balances[to] = old_to_balance + value]
    IN  IF old_sender_balance < value
        THEN ErrData(self, "InsufficientBalance",
                     [from |-> from, have |-> old_sender_balance, want |-> value])
        ELSE Ok(s2, <<ERC20Transfer(from, to, value)>>)

\* fn _transfer of the ERC20 contract: the balance of `to` is read after the
\* balance of `from` is written.
erc20__transfer(self, from, to, value) ==
    LET old_sender_balance == self.balances[from]
        s1 == [self EXCEPT !.balances[from] = old_sender_balance - value]
        s2 == [s1 EXCEPT !.balances[to] = s1.balances[to] + value]
    IN  IF old_sender_balance < value
        THEN ErrData(self, "InsufficientBalance",
                     [from |-> from, have |-> old_sender_balance, want |-> value])
        ELSE Ok(s2, <<ERC20Transfer(from, to, value)>>)

\* fn _mint of the ERC20 contract
erc20__mint(self, address, value) ==
    LET s1 == [self EXCEPT !.balances[address] = @ + value]
        s2 == [s1 EXCEPT !.total_supply = @ + value]
    IN  Ok(s2, <<ERC20Transfer(ZERO, address, value)>>)

\* fn _burn of the ERC20 contract
erc20__burn(self, address, value) ==
    LET old_balance == self.balances[address]
        s1 == [self EXCEPT !.balances[address] = old_balance - value]
        s2 == [s1 EXCEPT !.total_supply = @ - value]
    IN  IF old_balance < value
        THEN ErrData(self, "InsufficientBalance",
                     [from |-> address, have |-> old_balance, want |-> value])
        ELSE Ok(s2, <<ERC20Transfer(address, ZERO, value)>>)

\* fn transfer of the ERC20 contract
erc20_transfer(self, sender, to, value) == erc20__transfer(self, sender, to, value)

\* Mutant: transfer_from that leaves the allowance as it is.
erc20_transfer_from_free(self, sender, from, to, value) ==
    LET old_allowance == self.allowances[from][sender]
    IN  IF old_allowance < value
        THEN ErrData(self, "InsufficientAllowance",
                     [owner |-> from, spender |-> sender, have |-> old_allowance,
                      want |-> value])
        ELSE erc20__transfer(self, from, to, value)

\* fn transfer_from of the ERC20 contract: the allowance is lowered before
\* _transfer runs, and an error of _transfer is returned after that write.
erc20_transfer_from(self, sender, from, to, value) ==
    LET old_allowance == self.allowances[from][sender]
        s1 == [self EXCEPT !.allowances[from][sender] = old_allowance - value]
    IN  IF old_allowance < value
        THEN ErrData(self, "InsufficientAllowance",
                     [owner |-> from, spender |-> sender, have |-> old_allowance,
                      want |-> value])
        ELSE erc20__transfer(s1, from, to, value)

\* Mutant: one call of an entry point whose writes stay when it returns an error.
CallERC20_keeps_writes(op, args, r) ==
    /\ erc20' = r.self
    /\ last' = [op |-> op,
                args |-> IF r.result = "Ok" THEN args ELSE <<>>,
                result |-> r.result, log |-> r.log, changed |-> {}, replay |-> FALSE]
    /\ UNCHANGED <<mock_total_supply, batch_of, erc721, erc721a, now, consumed>>

\* One call of an entry point of the ERC20 contract: when it returns an error
\* the host reverts every write of the call.
CallERC20(op, args, r) ==
    /\ erc20' = IF r.result = "Ok" THEN r.self ELSE erc20
    /\ last' = [op |-> op,
                args |-> IF r.result = "Ok" THEN args ELSE <<>>,
                result |-> r.result, log |-> r.log, changed |-> {}, replay |-> FALSE]
    /\ UNCHANGED <<mock_total_supply, batch_of, erc721, erc721a, now, consumed>>

\* ERC20Mock mint(qty) sent by sender.
MintERC20 ==
    \E sender \in Accounts, qty \in Values :
        /\ erc20.total_supply + qty <= MaxSupply
        /\ CallERC20("mint", <<sender, qty>>, erc20__mint(erc20, sender, qty))

\* ERC20Mock burn(qty) sent by sender.
BurnERC20 ==
    \E sender \in Accounts, qty \in Values :
        CallERC20("burn", <<sender, qty>>, erc20__burn(erc20, sender, qty))

\* ERC20 transfer(to, value) sent by sender.
TransferERC20 ==
    \E sender \in Accounts, to \in Address, value \in Values :
        CallERC20("transfer", <<sender, to, value>>, erc20_transfer(erc20, sender, to, value))

\* ERC20 transfer_from(from, to, value) sent by sender.
TransferFromERC20 ==
    \E sender \in Spenders, from \in Accounts, to \in Address, value \in Values :
        CallERC20("transfer_from", <<sender, from, to, value>>,
                  erc20_transfer_from(erc20, sender, from, to, value))

\* The (v, r, s) of the permit calls of the ERC20 specification: the owner's
\* signature over the digest of the call, and a stranger's.
SubmissionsERC20(owner, spender, value, deadline, nonce) ==
    {<<27, Signature(key, signed_hash(owner, spender, value, nonce, deadline), 0)>> :
        key \in {owner, STRANGER}}

\* ERC20 permit, each owner granted at most MaxPermits permits.
PermitERC20 ==
    \E owner \in Accounts, spender \in Spenders, value \in Values, deadline \in Timestamps :
        /\ erc20.nonces[owner] < MaxPermits
        /\ \E sub \in SubmissionsERC20(owner, spender, value, deadline, erc20.nonces[owner]) :
              LET r == permit(erc20, owner, spender, value, deadline, sub[1], sub[2], now)
              IN  /\ erc20' = IF r.result = "Ok" THEN r.self ELSE erc20
                  /\ PermitGhosts(<<owner, spender, value, deadline, sub[1], sub[2]>>,
                                  r, FALSE, FALSE)
                  /\ UNCHANGED <<mock_total_supply, batch_of, erc721, erc721a, now>>

\* The ERC20 contract within one block: every entry point of ERC20Mock.
NextERC20 ==
    \/ MintERC20
    \/ BurnERC20
    \/ TransferERC20
    \/ TransferFromERC20
    \/ ApproveERC20
    \/ PermitERC20

SpecERC20 == Init /\ [][NextERC20]_vars

\* ------------------------------------------------------ basic ERC721 calls
\* One call of the basic ERC721 contract that returned Ok.
CallERC721(op, args, r) ==
    /\ r.result = "Ok"
    /\ erc721' = r.self
    /\ last' = [op |-> op, args |-> args, result |-> r.result, log |-> r.log,
                changed |-> {}, replay |-> FALSE]
    /\ UNCHANGED <<mock_total_supply, batch_of, erc721a, erc20, now, consumed>>

\* Basic ERC721 mint(to, token_id), as a contract's mint entry point calls it.
MintERC721 ==
    \E to \in Address, token_id \in Tokens :
        CallERC721("erc721_mint", <<to, token_id>>, erc721_mint(erc721, to, token_id))

\* Basic ERC721 burn(token_id) sent by sender.
BurnERC721 ==
    \E sender \in Accounts, token_id \in Tokens :
        CallERC721("erc721_burn", <<sender, token_id>>, erc721_burn(erc721, sender, token_id))

\* Basic ERC721 transfer_from(from, to, token_id) sent by sender.
TransferERC721 ==
    \E sender \in Accounts, from \in Address, to \in Address, token_id \in Tokens :
        CallERC721("erc721_transfer", <<sender, from, to, token_id>>,
                   erc721_transfer_from(erc721, sender, from, to, token_id))

\* Basic ERC721 approve(approved, token_id) sent by sender.
ApproveERC721 ==
    \E sender \in Accounts, approved \in Address, token_id \in Tokens :
        CallERC721("erc721_approve", <<sender, approved, token_id>>,
                   erc721_approve(erc721, sender, approved, token_id))

\* The basic ERC721 contract: mint, burn, transfer_from and approve.
NextERC721 == MintERC721 \/ BurnERC721 \/ TransferERC721 \/ ApproveERC721

SpecERC721 == Init /\ [][NextERC721]_vars

\* ERC721Mock (samples/src/erc721_mock.rs).  The loop of mint_loop (lines
\* 44-46): erc721.mint(sender, supply + i) for i below qty, left at the first
\* error.
RECURSIVE mint_loop_from(_, _, _, _, _)
mint_loop_from(self, sender, supply, i, qty) ==
    IF i >= qty THEN Ok(self, <<>>)
    ELSE LET m == erc721_mint(self, sender, supply + i)
         IN  IF m.result # "Ok" THEN Err(m.self, m.result)
             ELSE LET rest == mint_loop_from(m.self, sender, supply, i + 1, qty)
                  IN  IF rest.result # "Ok" THEN rest
                      ELSE Ok(rest.self, m.log \o rest.log)

\* One call of an entry point of ERC721Mock that returned r and, when it
\* succeeded, set total_supply to supply: when it returns an error the host
\* reverts every write of the call.
CallMock(op, args, r, supply) ==
    /\ erc721' = IF r.result = "Ok" THEN r.self ELSE erc721
    /\ mock_total_supply' = IF r.result = "Ok" THEN supply ELSE mock_total_supply
    /\ last' = [op |-> op, args |-> args, result |-> r.result, log |-> r.log,
                changed |-> {}, replay |-> FALSE]
    /\ UNCHANGED <<batch_of, erc721a, erc20, now, consumed>>

\* ERC721Mock mint_loop(qty) sent by sender (lines 39-49); the ids it asks for
\* are ids of the model.
MintLoopMock ==
    \E sender \in Accounts, qty \in 0 .. MaxToken + 1 :
        /\ mock_total_supply + qty <= MaxToken + 1
        /\ CallMock("mint_loop", <<sender, qty>>,
                    mint_loop_from(erc721, sender, mock_total_supply, 0, qty),
                    mock_total_supply + qty)

\* ERC721Mock burn(token_id) sent by sender (lines 51-56), for the calls in
\* which erc721.burn succeeds.
BurnMock ==
    \E sender \in Accounts, token_id \in Tokens :
        /\ erc721_burn(erc721, sender, token_id).result = "Ok"
        /\ CallMock("mock_burn", <<sender, token_id>>,
                    erc721_burn(erc721, sender, token_id), mock_total_supply - 1)

\* ERC721Mock: mint_loop and burn.
NextMock == MintLoopMock \/ BurnMock

SpecMock == Init /\ [][NextMock]_vars

\* The ledger as the block timestamp advances: mint, transfer and burn, with
\* at most MaxApproved ids.
NextTimed == Tick \/ MintFew \/ Transfer \/ Burn

SpecTimed == Init /\ [][NextTimed]_vars

\* ================================================================ claims
\* Ids a caller may query: the whole ledger and ids past its end.
QueryIds == 0 .. MaxIndex + 1
\* The ids minted so far: start_id <= t < _current_index.
MintedIds(self) == {t \in TokenIds : _start_token_id <= t /\ t < self._current_index}
\* The slot of t records an owner itself.
Explicit(self, t) == self._ownerships[t].addr # ZERO
\* The nearest id below t whose slot has a non-zero addr.
HasLowerExplicit(self, t) == \E u \in _start_token_id .. t - 1 : Explicit(self, u)
NearestLowerExplicit(self, t) ==
    CHOOSE u \in _start_token_id .. t - 1 :
        Explicit(self, u) /\ \A w \in u + 1 .. t - 1 : ~Explicit(self, w)

\* ---- C1
CaseA(self, t) == Explicit(self, t) /\ ~self._ownerships[t].burned
CaseB(self, t) == self._ownerships[t].burned
CaseC(self, t) ==
    /\ ~Explicit(self, t)
    /\ ~self._ownerships[t].burned
    /\ HasLowerExplicit(self, t)

\* C1: invariant I1.  Every minted id is in exactly one of the cases (a) own
\* non-zero addr and not burned, (b) burned, (c) empty, not burned, with a
\* lower id that has a non-zero addr; in case (c) owner_of returns the addr of
\* the nearest such lower id.
C1_LedgerInvariant ==
    \A t \in MintedIds(erc721a) :
        /\ Cardinality({c \in {"a", "b", "c"} :
                \/ c = "a" /\ CaseA(erc721a, t)
                \/ c = "b" /\ CaseB(erc721a, t)
                \/ c = "c" /\ CaseC(erc721a, t)}) = 1
        /\ CaseC(erc721a, t) =>
              owner_of(erc721a, t) =
                  [result |-> "Ok",
                   addr |-> erc721a._ownerships[NearestLowerExplicit(erc721a, t)].addr]

\* C1 witness: after a burn, the ledger holds an id of each case at once.
C1_Witness ==
    /\ last.op = "burn"
    /\ \E a \in MintedIds(erc721a), b \in MintedIds(erc721a), c \in MintedIds(erc721a) :
          CaseA(erc721a, a) /\ CaseB(erc721a, b) /\ CaseC(erc721a, c)

\* ---- C2
\* C2: for every id, in range or not, the backward scan of _ownership_of finds
\* a slot with a non-zero addr before it would decrement below id 0.
C2_ScanTerminates ==
    \A token_id \in QueryIds : _ownership_of(erc721a, token_id).result # "Underflow"

\* C2 witness: a scan that walks from the last id of a batch down to id 0.
C2_Witness ==
    /\ erc721a._current_index = MaxIndex
    /\ ~Explicit(erc721a, MaxIndex - 1)
    /\ _ownership_of(erc721a, MaxIndex - 1).result = "Ok"
    /\ _ownership_of(erc721a, MaxIndex - 1).visited = MaxIndex

\* ---- C3
\* C3: owner_of fails with OwnerQueryForNonexistentToken exactly when the id is
\* below start_id, at or past _current_index, or burned; otherwise it returns
\* the slot's own addr when non-zero, else the addr of the nearest lower id with
\* a non-zero addr.
C3_OwnerOf ==
    \A token_id \in QueryIds :
        LET nonexistent ==
                \/ token_id < _start_token_id
                \/ token_id >= erc721a._current_index
                \/ erc721a._ownerships[token_id].burned
            r == owner_of(erc721a, token_id)
        IN  /\ (r.result = "OwnerQueryForNonexistentToken") <=> nonexistent
            /\ ~nonexistent =>
                  /\ r.result = "Ok"
                  /\ r.addr # ZERO
                  /\ r.addr =
                        IF Explicit(erc721a, token_id)
                        THEN erc721a._ownerships[token_id].addr
                        ELSE erc721a._ownerships[NearestLowerExplicit(erc721a, token_id)].addr

\* C3 witness: a ledger with a burned id, an id resolved by the scan, and the
\* first id past the ledger's end.
C3_Witness ==
    /\ \E t \in MintedIds(erc721a) : erc721a._ownerships[t].burned
    /\ \E t \in MintedIds(erc721a) :
          /\ ~Explicit(erc721a, t)
          /\ _ownership_of(erc721a, t).visited >= 2
    /\ owner_of(erc721a, erc721a._current_index).result = "OwnerQueryForNonexistentToken"

\* ---- C4
\* C4: a successful transfer(from, to, id) makes owner_of(id) = to and leaves
\* owner_of(j) as it was for every other id j; when id + 1 is minted and its slot
\* was empty, owner_of(id + 1) is still from.
C4_TransferFrameStep ==
    (last'.op = "transfer") =>
        LET from == last'.args[2]
            to == last'.args[3]
            token_id == last'.args[4]
        IN  /\ owner_of(erc721a', token_id) = [result |-> "Ok", addr |-> to]
            /\ \A j \in QueryIds \ {token_id} :
                  owner_of(erc721a', j) = owner_of(erc721a, j)
            /\ (/\ token_id + 1 < erc721a._current_index
                /\ ~Explicit(erc721a, token_id + 1)) =>
                  owner_of(erc721a', token_id + 1) = [result |-> "Ok", addr |-> from]
C4_TransferFrame == [][C4_TransferFrameStep]_vars

\* C4 witness: a transfer to another account that materialised the slot of id + 1.
C4_Witness ==
    /\ last.op = "transfer"
    /\ last.args[2] # last.args[3]
    /\ last.args[4] + 1 \in last.changed
    /\ owner_of(erc721a, last.args[4] + 1) = [result |-> "Ok", addr |-> last.args[2]]

\* ---- C5
\* The storage of a fresh contract able to hold ids 0 .. n.
FreshStorage(n) ==
    [_current_index |-> 0,
     _burn_counter |-> 0,
     _ownerships |-> [t \in 0 .. n |-> EmptyOwnership],
     _address_data |-> [a \in Address |-> EmptyAddressData],
     _token_approvals |-> [t \in 0 .. n |-> ZERO],
     _operator_approvals |-> [a \in Address |-> [b \in Address |-> FALSE]]]

\* The scenario of the claim: mint ids 0-4 to account 1, burn id 2.
C5_Scenario ==
    LET minted == _mint(FreshStorage(5), 1, 5, now)
        burned == _burn(minted.self, 1, 2, TRUE, now)
    IN  /\ minted.result = "Ok"
        /\ burned.result = "Ok"
        /\ owner_of(burned.self, 3) = [result |-> "Ok", addr |-> 1]
        /\ owner_of(burned.self, 2).result = "OwnerQueryForNonexistentToken"
        /\ total_supply(burned.self) = 4

\* C5: a successful burn of id makes owner_of(id) fail with the
\* nonexistent-token error, leaves owner_of(j) as it was for every other id j and
\* lowers total_supply by one; the scenario mint 0-4, burn 2 gives owner_of(3) = A,
\* owner_of(2) failing and total_supply 4.
C5_BurnFrameStep ==
    /\ C5_Scenario
    /\ (last'.op = "burn") =>
          LET token_id == last'.args[2]
          IN  /\ owner_of(erc721a', token_id).result = "OwnerQueryForNonexistentToken"
              /\ \A j \in QueryIds \ {token_id} :
                    owner_of(erc721a', j) = owner_of(erc721a, j)
              /\ total_supply(erc721a') = total_supply(erc721a) - 1
C5_BurnFrame == [][C5_BurnFrameStep]_vars

\* C5 witness: a burn that materialised the slot of id + 1, which keeps its owner.
C5_Witness ==
    /\ last.op = "burn"
    /\ last.args[2] + 1 \in last.changed
    /\ owner_of(erc721a, last.args[2]).result = "OwnerQueryForNonexistentToken"
    /\ owner_of(erc721a, last.args[2] + 1) =
          [result |-> "Ok", addr |-> erc721a._ownerships[last.args[2]].addr]

\* ---- C6
\* C6: total_supply() = _current_index - _burn_counter - start_id is the number
\* of minted ids that are not burned, and the subtraction never underflows.
C6_TotalSupply ==
    /\ erc721a._burn_counter <= erc721a._current_index - _start_token_id
    /\ total_supply(erc721a) =
          Cardinality({t \in MintedIds(erc721a) : ~erc721a._ownerships[t].burned})

\* C6 witness: every minted id has been burned, so total_supply is 0.
C6_Witness ==
    /\ last.op = "burn"
    /\ erc721a._current_index = MaxIndex
    /\ erc721a._burn_counter = MaxIndex
    /\ total_supply(erc721a) = 0

\* ---- C7
\* n consecutive _mint(to, 1) calls, with the events of all of them.
RECURSIVE MintSingles(_, _, _, _)
MintSingles(self, to, n, timestamp) ==
    IF n = 0 THEN Ok(self, <<>>)
    ELSE LET first == _mint(self, to, 1, timestamp)
             rest == MintSingles(first.self, to, n - 1, timestamp)
         IN  IF first.result # "Ok" THEN first
             ELSE IF rest.result # "Ok" THEN rest
             ELSE Ok(rest.self, first.log \o rest.log)

\* C7: from any reachable state, one _mint(to, n) and n calls _mint(to, 1) give
\* the same address data (balance, number_minted), the same _current_index, the
\* same owner_of for every id and the same n Transfer(0, to, id) events with ids
\* ascending from the old _current_index; the batch writes one ownership slot.
C7_BatchMintEquivalence ==
    \A to \in Accounts, n \in 1 .. MaxQuantity :
        (erc721a._current_index + n <= MaxIndex) =>
            LET batch == _mint(erc721a, to, n, now)
                singles == MintSingles(erc721a, to, n, now)
                old == erc721a._current_index
            IN  /\ batch.result = "Ok"
                /\ singles.result = "Ok"
                /\ batch.self._address_data = singles.self._address_data
                /\ batch.self._current_index = singles.self._current_index
                /\ batch.self._current_index = old + n
                /\ \A t \in QueryIds : owner_of(batch.self, t) = owner_of(singles.self, t)
                /\ batch.log = singles.log
                /\ batch.log = [i \in 1 .. n |-> TransferEvent(ZERO, to, old + i - 1)]
                /\ {t \in TokenIds : batch.self._ownerships[t] # erc721a._ownerships[t]}
                      \subseteq {old}
                /\ \A t \in old + 1 .. old + n - 1 : ~Explicit(batch.self, t)

\* C7 witness: a batch mint of several ids on a ledger that already holds
\* tokens: one slot written, one event per id.
C7_Witness ==
    /\ last.op = "mint"
    /\ last.args[2] >= 2
    /\ erc721a._current_index > last.args[2]
    /\ Cardinality(last.changed) = 1
    /\ Len(last.log) = last.args[2]
    /\ \A t \in erc721a._current_index - last.args[2] .. erc721a._current_index - 1 :
          owner_of(erc721a, t) = [result |-> "Ok", addr |-> last.args[1]]

\* ---- C8
\* C8: once permit(owner, spender, value, deadline, v, r, s) has succeeded,
\* the same arguments submitted again at any later time not past the deadline
\* fail with InvalidPermit and leave allowance[owner][spender] as it is.
C8_ReplayFails ==
    (consumed # <<>> /\ now <= consumed[4]) =>
        LET r == permit(erc20, consumed[1], consumed[2], consumed[3], consumed[4],
                        consumed[5], consumed[6], now)
        IN  /\ r.result = "InvalidPermit"
            /\ r.self.allowances = erc20.allowances
            /\ (last.replay /\ last.op = "permit") => last.result = "InvalidPermit"

\* C8 witness: a permit granting 1 was consumed, the allowance has since
\* become 0, and the call submitted again failed with InvalidPermit at a time
\* not past its deadline.
C8_Witness ==
    /\ consumed # <<>>
    /\ last.op = "permit"
    /\ last.replay
    /\ last.result = "InvalidPermit"
    /\ now <= consumed[4]
    /\ consumed[3] = 1
    /\ erc20.allowances[consumed[1]][consumed[2]] = 0

\* ---- C9
\* C9: permit fails with PermitExpired exactly when the block timestamp is
\* strictly greater than the deadline, and an expired call returns the storage
\* as it was (nonce and allowances).
C9_Expiry ==
    \A owner \in Address, spender \in Spenders, value \in Values, deadline \in Timestamps :
        \A sub \in Submissions(owner, spender, value, deadline, erc20.nonces[owner]) :
            LET r == permit(erc20, owner, spender, value, deadline, sub[1], sub[2], now)
            IN  /\ (r.result = "PermitExpired") <=> (now > deadline)
                /\ (r.result = "PermitExpired") => r.self = erc20

\* C9 witness: a permit call made one tick past its deadline failed with
\* PermitExpired, on a contract that had granted a permit before.
C9_Witness ==
    /\ last.op = "permit"
    /\ last.result = "PermitExpired"
    /\ now = last.args[1] + 1
    /\ \E a \in Accounts : erc20.nonces[a] > 0 /\ erc20.allowances[a][2] > 0

\* ---- C10
\* C10: permit writes an allowance only if the recovery succeeds and returns a
\* non-zero address equal to owner; if recovery fails, returns the zero address
\* or returns another address, a call that is not expired fails with
\* InvalidPermit and leaves every allowance as it is; permit with the zero
\* address as owner never succeeds.
C10_PermitAuthorization ==
    \A owner \in Address, spender \in Spenders, value \in Values, deadline \in Timestamps :
        \A sub \in Submissions(owner, spender, value, deadline, erc20.nonces[owner]) :
            LET r == permit(erc20, owner, spender, value, deadline, sub[1], sub[2], now)
                recovered == PrecompileEcRecover_ecrecover(
                                 signed_hash(owner, spender, value, erc20.nonces[owner],
                                             deadline), sub[1], sub[2])
                good == /\ recovered.result = "Ok"
                        /\ recovered.addr # ZERO
                        /\ recovered.addr = owner
            IN  /\ (r.result = "Ok" \/ r.self.allowances # erc20.allowances) => good
                /\ (now <= deadline /\ ~good) =>
                      /\ r.result = "InvalidPermit"
                      /\ r.self.allowances = erc20.allowances
                /\ owner = ZERO => r.result # "Ok"

\* C10 witness: a permit call within its deadline failed with InvalidPermit
\* and no allowance has been granted.
C10_Witness ==
    /\ last.op = "permit"
    /\ last.result = "InvalidPermit"
    /\ now <= last.args[1]
    /\ \A a \in Address, b \in Address : erc20.allowances[a][b] = 0

\* ---- C11
\* C11: a successful permit(owner, spender, value, ...) sets
\* allowances[owner][spender] to value whatever it was, logs exactly
\* Approval(owner, spender, value), raises nonces[owner] by one and changes no
\* other allowance, no other nonce, no balance and not total_supply.  A step
\* that leaves the block timestamp alone is a call; last tells which.
C11_PermitFrameStep ==
    (now' = now /\ last'.op = "permit" /\ last'.result = "Ok") =>
        LET owner == last'.args[1]
            spender == last'.args[2]
            value == last'.args[3]
        IN  /\ erc20'.allowances[owner][spender] = value
            /\ \A a \in Address, b \in Address :
                  <<a, b>> # <<owner, spender>> =>
                      erc20'.allowances[a][b] = erc20.allowances[a][b]
            /\ last'.log = <<ERC20Approval(owner, spender, value)>>
            /\ erc20'.nonces[owner] = erc20.nonces[owner] + 1
            /\ \A a \in Address \ {owner} : erc20'.nonces[a] = erc20.nonces[a]
            /\ erc20'.balances = erc20.balances
            /\ erc20'.total_supply = erc20.total_supply
C11_PermitFrame == [][C11_PermitFrameStep]_vars

\* C11 witness: a successful permit of value 0 over an allowance that an
\* approve had set to 1, while the other owner's allowance stays 1.
C11_Witness ==
    /\ last.op = "permit"
    /\ last.result = "Ok"
    /\ last.args[3] = 0
    /\ erc20.allowances[last.args[1]][last.args[2]] = 0
    /\ \E a \in Accounts \ {last.args[1]} : erc20.allowances[a][last.args[2]] = 1

\* ---- C12
\* C12: over every call of the ERC20 contract no nonce decreases; a successful
\* permit for owner raises nonces[owner] by exactly one and leaves the other
\* nonces; transfer, transfer_from, approve, mint, burn and failed calls change
\* no nonce.  So the nonce a successful permit consumed is below every nonce the
\* owner's later permits consume.
C12_NonceMonotoneStep ==
    /\ \A a \in Address : erc20'.nonces[a] >= erc20.nonces[a]
    /\ IF now' = now /\ last'.op = "permit" /\ last'.result = "Ok"
       THEN /\ erc20'.nonces[last'.args[1]] = erc20.nonces[last'.args[1]] + 1
            /\ \A a \in Address \ {last'.args[1]} : erc20'.nonces[a] = erc20.nonces[a]
       ELSE erc20'.nonces = erc20.nonces
C12_NonceMonotone == [][C12_NonceMonotoneStep]_vars

\* C12 witness: an owner's second successful permit, on a contract that holds
\* balances and allowances.
C12_Witness ==
    /\ last.op = "permit"
    /\ last.result = "Ok"
    /\ erc20.nonces[last.args[1]] = 2
    /\ erc20.total_supply > 0
    /\ \E a \in Accounts : erc20.balances[a] > 0 /\ erc20.allowances[a][2] > 0

\* ---- C13
\* The caller is owner, an approved operator of owner, or the approved spender
\* of token_id.
CallerAllowed(self, sender, owner, token_id) ==
    \/ sender = owner
    \/ self._operator_approvals[owner][sender]
    \/ self._token_approvals[token_id] = sender

\* C13: transfer_from(from, to, id) succeeds only if owner_of(id) = from, to is
\* not the zero address and the caller is from, an operator of from or the
\* approved spender of id; _burn(id, true) succeeds only if the caller passes
\* the same test against the resolved owner; _burn(id, false) succeeds for
\* every caller whenever the id has an owner.
C13_Authorization ==
    \A sender \in Accounts, token_id \in TokenIds :
        LET o == owner_of(erc721a, token_id)
        IN  /\ \A from \in Address, to \in Address :
                  (transfer_from(erc721a, sender, from, to, token_id, now).result = "Ok") =>
                      /\ o = [result |-> "Ok", addr |-> from]
                      /\ to # ZERO
                      /\ CallerAllowed(erc721a, sender, from, token_id)
            /\ (_burn(erc721a, sender, token_id, TRUE, now).result = "Ok") =>
                  /\ o.result = "Ok"
                  /\ CallerAllowed(erc721a, sender, o.addr, token_id)
            /\ (_burn(erc721a, sender, token_id, FALSE, now).result = "Ok") <=>
                  (o.result = "Ok")

\* C13 witness: a transfer sent by an account that is neither from nor an
\* operator of from (the approved spender of the id), while a token of the
\* other account can be burned by the caller without the approval check only.
C13_Witness ==
    /\ last.op = "transfer"
    /\ last.args[1] # last.args[2]
    /\ ~erc721a._operator_approvals[last.args[2]][last.args[1]]
    /\ \E t \in MintedIds(erc721a) :
          /\ _burn(erc721a, last.args[1], t, TRUE, now).result =
                "TransferCallerNotOwnerNorApproved"
          /\ _burn(erc721a, last.args[1], t, FALSE, now).result = "Ok"

\* ---- C14
\* C14: after every successful transfer or burn of an id, _token_approvals[id]
\* (what get_approved reports) is the zero address.
C14_ApprovalCleared ==
    /\ (last.op = "transfer") => erc721a._token_approvals[last.args[4]] = ZERO
    /\ (last.op = "burn") => erc721a._token_approvals[last.args[2]] = ZERO

\* ---- C15
\* No call on token_id succeeds in the ledger `self`: owner_of, transfer_from,
\* _burn with or without the approval check, approve.
Dead(self, token_id) ==
    /\ self._ownerships[token_id].burned
    /\ owner_of(self, token_id).result = "OwnerQueryForNonexistentToken"
    /\ \A sender \in Accounts :
          /\ \A from \in Address, to \in Address :
                transfer_from(self, sender, from, to, token_id, now).result # "Ok"
          /\ \A approval_check \in BOOLEAN :
                _burn(self, sender, token_id, approval_check, now).result # "Ok"
          /\ \A to \in Address : approve(self, sender, to, token_id).result # "Ok"

\* C15: over every mint, transfer, burn, approve and set_approval_for_all, an id
\* whose slot is burned keeps its flag, owner_of of it fails, and it can be
\* neither transferred nor burned nor approved again; _current_index never
\* decreases, and a mint logs only ids from the old _current_index upward and
\* leaves every slot below it as it was.
C15_BurnedStaysDeadStep ==
    /\ \A t \in TokenIds : erc721a._ownerships[t].burned => Dead(erc721a', t)
    /\ erc721a'._current_index >= erc721a._current_index
    /\ (last'.op = "mint") =>
          /\ \A i \in 1 .. Len(last'.log) :
                last'.log[i].token_id >= erc721a._current_index
          /\ \A t \in TokenIds :
                t < erc721a._current_index =>
                    erc721a'._ownerships[t] = erc721a._ownerships[t]
C15_BurnedStaysDead == [][C15_BurnedStaysDeadStep]_vars

\* C15 witness: a mint into a ledger whose only id had been burned: the mint
\* issues the next id and the burned id stays dead.
C15_Witness ==
    /\ last.op = "mint"
    /\ Dead(erc721a, 0)
    /\ erc721a._burn_counter = 1
    /\ last.log = <<TransferEvent(ZERO, last.args[1], 1)>>
    /\ owner_of(erc721a, 1) = [result |-> "Ok", addr |-> last.args[1]]

\* ---- C16
\* C16: when a reentrant call mints during the callbacks of _safe_mint and
\* every callback replies with the selector, _safe_mint returns ReentrancyGuard;
\* whatever the replies, it does not return Ok after a reentrant mint, so it
\* returns Ok only when _current_index after the callbacks is its value after
\* the outer mint; reentrant burns and transfers do not hide a reentrant mint.
C16_ReentrancyStep ==
    (last'.op = "safe_mint") =>
        LET quantity == last'.args[2]
            mints == last'.args[3]
            accepted == last'.args[4]
        IN  /\ (mints > 0 /\ accepted) => last'.result = "ReentrancyGuard"
            /\ mints > 0 => last'.result # "Ok"
            /\ last'.result = "Ok" =>
                  /\ mints = 0
                  /\ erc721a'._current_index = erc721a._current_index + quantity
ValidationErrors ==
    {"MintToZeroAddress", "MintZeroQuantity", "OwnerQueryForNonexistentToken",
     "TransferFromIncorrectOwner", "TransferCallerNotOwnerNorApproved",
     "TransferToZeroAddress", "ApprovalToCurrentOwner", "ApprovalCallerNotOwnerNorApproved"}

\* The outcome r of a call on the ledger: when it is one of the validation
\* errors, the storage the call returns with is the ledger and no event is logged.
FailsClean(r) ==
    r.result \in ValidationErrors => r.self = erc721a /\ r.log = <<>>

\* C17: in every state, for every caller and argument, a call of _mint,
\* _safe_mint, transfer_from, _burn or approve that fails with an
\* input-validation or authorization error returns with the storage it started
\* from and without an event.
C17_ErrorsBeforeWrites ==
    /\ \A to \in Address, quantity \in 0 .. MaxApproved :
           FailsClean(_mint(erc721a, to, quantity, now))
    /\ \A to \in Address, quantity \in 0 .. 1 :
           \A behaviours \in [1 .. quantity -> ReceiverBehaviours] :
               SafeMintFits(erc721a, to, quantity, behaviours) =>
                   FailsClean(_safe_mint_with_data(erc721a, to, quantity, behaviours, now))
    /\ \A sender \in Accounts, from \in Address, to \in Address, token_id \in QueryIds :
           FailsClean(transfer_from(erc721a, sender, from, to, token_id, now))
    /\ \A sender \in Accounts, token_id \in QueryIds, approval_check \in BOOLEAN :
           FailsClean(_burn(erc721a, sender, token_id, approval_check, now))
    /\ \A sender \in Accounts, to \in Address, token_id \in QueryIds :
           FailsClean(approve(erc721a, sender, to, token_id))

\* C17 witness: token 0 of account 1 carries an approval; account 2 is neither
\* approved nor an operator, so its transfer and its approve fail, the owner's
\* transfer to the zero address fails, and so do a mint of nothing and the
\* transfer of an id never minted.
C17_Witness ==
    /\ erc721a._current_index = 1
    /\ owner_of(erc721a, 0).addr = 1
    /\ erc721a._token_approvals[0] # ZERO
    /\ transfer_from(erc721a, 2, 1, 2, 0, now).result = "TransferCallerNotOwnerNorApproved"
    /\ approve(erc721a, 2, 2, 0).result = "ApprovalCallerNotOwnerNorApproved"
    /\ approve(erc721a, 1, 1, 0).result = "ApprovalToCurrentOwner"
    /\ transfer_from(erc721a, 1, 1, ZERO, 0, now).result = "TransferToZeroAddress"
    /\ transfer_from(erc721a, 1, 2, 2, 0, now).result = "TransferFromIncorrectOwner"
    /\ transfer_from(erc721a, 1, 1, 2, 1, now).result = "OwnerQueryForNonexistentToken"
    /\ _mint(erc721a, 1, 0, now).result = "MintZeroQuantity"
    /\ _mint(erc721a, ZERO, 1, now).result = "MintToZeroAddress"

\* ---- C18
\* C18: a step changes _operator_approvals[owner][operator] only when it is
\* set_approval_for_all(operator, approved) sent by owner, and then the entry
\* is approved; every mint, transfer, burn and approve leaves every operator
\* approval as it was.
C18_OperatorApprovalsStep ==
    /\ \A owner \in Address, operator \in Address :
           erc721a'._operator_approvals[owner][operator]
                   # erc721a._operator_approvals[owner][operator] =>
               /\ last'.op = "set_approval_for_all"
               /\ last'.args[1] = owner
               /\ last'.args[2] = operator
               /\ erc721a'._operator_approvals[owner][operator] = last'.args[3]
    /\ last'.op \in {"mint", "transfer", "burn", "approve"} =>
           erc721a'._operator_approvals = erc721a._operator_approvals
C18_OperatorApprovals == [][C18_OperatorApprovalsStep]_vars

\* C18 witness: account 2, operator of account 1, has just transferred a token
\* of account 1, and is still its operator.
C18_Witness ==
    /\ last.op = "transfer"
    /\ last.args[1] = 2
    /\ last.args[2] = 1
    /\ erc721a._operator_approvals[1][2]
    /\ owner_of(erc721a, last.args[4]).addr = last.args[3]

\* ---- C19
\* C19: for every account key, digest and recovery id of the signing,
\* ecrecover(digest, recid + 27, r, s) on the signature (r, s) the key made
\* over the digest returns Ok with the signer's address, the last 20 bytes of
\* keccak256 of the uncompressed public key without its prefix byte.
C19_RecoversSigner ==
    \A key \in Accounts, recid \in {0, 1} :
        (/\ last.op = "ecrecover"
         /\ last.args[2] = recid + 27
         /\ last.args[3] = SigR(key, last.args[1], recid)
         /\ last.args[4] = SigS(key, last.args[1], recid, FALSE)) =>
            /\ last.result = "Ok"
            /\ last.addr = key
            /\ last.addr = keccak256_address(Tail(PublicKey(key))[1])

\* C19 witness: account 2 signed a digest with recovery id 1 and the call with
\* v = 28 has returned.
C19_Witness ==
    /\ last.op = "ecrecover"
    /\ last.args[2] = 28
    /\ last.args[3] = SigR(2, last.args[1], 1)
    /\ last.args[4] = SigS(2, last.args[1], 1, FALSE)
    /\ last.addr = 2

\* ---- C20
\* C20: a call ecrecover(h, v, r, s) with v of 0 or 1 builds the input of, and
\* returns what is returned by, ecrecover(h, v + 27, r, s); the input holds h,
\* r and s unchanged, zero in bytes 32..62 and 27 or 28 in byte 63.
C20_HostConvention ==
    (last.op = "ecrecover" /\ last.args[2] \in {0, 1}) =>
        LET h == last.args[1]
            v == last.args[2]
            r == last.args[3]
            s == last.args[4]
        IN  /\ last.input = EcRecoverInput(h, v + 27, r, s)
            /\ last.result = RustEcRecover_ecrecover(h, v + 27, r, s).result
            /\ last.addr = RustEcRecover_ecrecover(h, v + 27, r, s).addr
            /\ last.input.message_hash = h
            /\ last.input.r = r
            /\ last.input.s = s
            /\ last.input.pad = 0
            /\ last.input.v = v + 27

\* C20 witness: a call with v = 1 has recovered the address of an account.
C20_Witness ==
    /\ last.op = "ecrecover"
    /\ last.args[2] = 1
    /\ last.result = "Ok"
    /\ last.addr \in Accounts
    /\ last.input.v = 28

\* ---- C21
\* C21: every call ecrecover(h, v, r, s) with v outside {0, 1, 27, 28} returns
\* EcdsaError, whatever the digest, r and s.
C21_BadRecoveryIdFails ==
    (last.op = "ecrecover" /\ last.args[2] \notin {0, 1, 27, 28}) =>
        last.result = "EcdsaError"

\* ---- C22
\* The signature half s with order - s in its place.
OtherForm(s) == [s EXCEPT !.high = ~@]

\* The complementary recovery id, in the convention v is given in.
OtherId(v) == IF v <= 1 THEN 1 - v ELSE 55 - v

\* C22: for every call ecrecover(h, v, r, s) with v in {0, 1, 27, 28} and s the
\* half of a signature, the call on the same digest and r with s in the other
\* form (s against order - s) and the complementary recovery id returns the same
\* result and the same address.
C22_Malleability ==
    (/\ last.op = "ecrecover"
     /\ last.args[2] \in {0, 1, 27, 28}
     /\ last.args[4].half = "s") =>
        LET twin == RustEcRecover_ecrecover(last.args[1], OtherId(last.args[2]),
                                            last.args[3], OtherForm(last.args[4]))
        IN  /\ last.result = twin.result
            /\ last.addr = twin.addr

\* C22 witness: the call on the high-s form of account 1's signature, with the
\* complement of the recovery id of the signing, has returned account 1.
C22_Witness ==
    /\ last.op = "ecrecover"
    /\ last.args[3] = SigR(1, last.args[1], 0)
    /\ last.args[4] = SigS(1, last.args[1], 0, TRUE)
    /\ last.args[2] = 28
    /\ last.addr = 1

\* ---- C23
\* What transfer_from(from, to, value) sent by sender must return on the
\* storage self, r being what it returned: Ok exactly when the allowance of
\* sender over from and the balance of from both cover value, and then the
\* allowance is lower by value, value is taken from balances[from] and then
\* added to balances[to] (a transfer to oneself leaves the balance as it was),
\* nothing else changes and one Transfer(from, to, value) is logged; otherwise
\* InsufficientAllowance when the allowance is short, else InsufficientBalance,
\* each carrying the amount held and the amount asked for.
TransferFromPost(self, sender, from, to, value, r) ==
    LET allowance == self.allowances[from][sender]
        balance == self.balances[from]
    IN  /\ (r.result = "Ok") <=> (allowance >= value /\ balance >= value)
        /\ r.result = "Ok" =>
              /\ r.self.allowances = [self.allowances EXCEPT ![from][sender] = @ - value]
              /\ r.self.allowances[from][sender] = allowance - value
              /\ r.self.balances = [[self.balances EXCEPT ![from] = @ - value]
                                        EXCEPT ![to] = @ + value]
              /\ from # to => /\ r.self.balances[from] = balance - value
                              /\ r.self.balances[to] = self.balances[to] + value
              /\ r.self.total_supply = self.total_supply
              /\ r.self.nonces = self.nonces
              /\ r.log = <<ERC20Transfer(from, to, value)>>
        /\ allowance < value =>
              /\ r.result = "InsufficientAllowance"
              /\ r.data = [owner |-> from, spender |-> sender, have |-> allowance,
                           want |-> value]
              /\ r.log = <<>>
        /\ (allowance >= value /\ balance < value) =>
              /\ r.result = "InsufficientBalance"
              /\ r.data = [from |-> from, have |-> balance, want |-> value]
              /\ r.log = <<>>

\* C23: in every state of the ERC20 contract, transfer_from by every caller,
\* for every from, to and value, returns as TransferFromPost says.
C23_TransferFrom ==
    \A sender \in Accounts, from \in Accounts, to \in Address, value \in Values :
        TransferFromPost(erc20, sender, from, to, value,
                         erc20_transfer_from(erc20, sender, from, to, value))

\* C23 witness: account 2 has just spent its whole allowance over account 1,
\* moving 1 to the zero address; the same call again is short of allowance,
\* and its allowance over its own empty balance is short of balance.
C23_Witness ==
    /\ last.op = "transfer_from"
    /\ last.args = <<2, 1, ZERO, 1>>
    /\ last.log = <<ERC20Transfer(1, ZERO, 1)>>
    /\ erc20.allowances[1][2] = 0
    /\ erc20.balances[ZERO] = 1
    /\ erc20_transfer_from(erc20, 2, 1, ZERO, 1).result = "InsufficientAllowance"
    /\ erc20_transfer_from(erc20, 2, 2, 1, 1).result = "InsufficientBalance"

\* ---- C24
\* What mint(to, token_id) of the basic ERC721 contract must return on the
\* storage self, r being what it returned.
MintPost(self, to, token_id, r) ==
    /\ to = ZERO =>
          /\ r.result = "TransferToZero"
          /\ r.self = self
          /\ r.log = <<>>
    /\ (to # ZERO /\ self.owners[token_id] # ZERO) =>
          /\ r.result = "AlreadyMinted"
          /\ r.self = self
          /\ r.log = <<>>
    /\ (to # ZERO /\ self.owners[token_id] = ZERO) =>
          /\ r.result = "Ok"
          /\ r.self.owners = [self.owners EXCEPT ![token_id] = to]
          /\ r.self.balance = [self.balance EXCEPT ![to] = @ + 1]
          /\ r.self.balance[to] = self.balance[to] + 1
          /\ r.self.approved = self.approved
          /\ r.self.approved_for_all = self.approved_for_all
          /\ r.log = <<TransferEvent(ZERO, to, token_id)>>

\* C24: in every state of the basic ERC721 contract, mint(to, token_id) fails
\* with TransferToZero for the zero address and with AlreadyMinted for a token
\* that has an owner, both without a write or an event; otherwise it sets
\* owners[token_id] = to, adds 1 to balance[to], changes nothing else and logs
\* Transfer(0, to, token_id).
C24_Mint ==
    \A to \in Address, token_id \in Tokens :
        MintPost(erc721, to, token_id, erc721_mint(erc721, to, token_id))

\* C24 witness: token 0 was burned and has just been minted again, to account
\* 1, which holds two tokens now; minting it once more fails, and so does a
\* mint of a free token to the zero address.
C24_Witness ==
    /\ last.op = "erc721_mint"
    /\ last.args = <<1, 0>>
    /\ last.log = <<TransferEvent(ZERO, 1, 0)>>
    /\ erc721.owners[0] = 1
    /\ erc721.balance[1] = 2
    /\ erc721.owners[2] = ZERO
    /\ erc721_mint(erc721, 2, 0).result = "AlreadyMinted"
    /\ erc721_mint(erc721, ZERO, 2).result = "TransferToZero"

\* ---- C25
\* What permit returned, r, on the storage self for a deadline not yet passed:
\* the storage it returns with, in success and in InvalidPermit alike, holds
\* nonces[owner] one higher (the write precedes the recovery and is not undone
\* by permit), and it succeeds only on a signature over the digest built from
\* the nonce before the write.
PermitOrder(self, owner, spender, value, deadline, rs, r) ==
    /\ r.result \in {"Ok", "InvalidPermit"}
    /\ r.self.nonces = [self.nonces EXCEPT ![owner] = @ + 1]
    /\ r.result = "Ok" =>
          rs.digest = signed_hash(owner, spender, value, self.nonces[owner], deadline)
    /\ rs.digest = signed_hash(owner, spender, value, self.nonces[owner] + 1, deadline) =>
          r.result = "InvalidPermit"

\* PermitOrder for every permit call on the contract whose deadline has not
\* passed.
PermitOrderHolds ==
    \A owner \in Address, spender \in Spenders, value \in Values, deadline \in Timestamps :
        \A sub \in Submissions(owner, spender, value, deadline, erc20.nonces[owner]) :
            ~_permit_expired(now, deadline) =>
                PermitOrder(erc20, owner, spender, value, deadline, sub[2],
                            permit(erc20, owner, spender, value, deadline, sub[1], sub[2],
                                   now))

\* C25 as stated: after every permit call that passed the expiry check, also
\* one that ended in InvalidPermit, the contract holds a nonce one higher.
C25_NoncePersistsStep ==
    (now' = now /\ last'.op = "permit" /\ last'.result \in {"Ok", "InvalidPermit"}) =>
        \E owner \in Address : erc20'.nonces = [erc20.nonces EXCEPT ![owner] = @ + 1]
C25_NonceOrderStep ==
    (now' = now /\ last'.op = "permit") =>
        IF last'.result = "Ok"
        THEN erc20'.nonces = [erc20.nonces EXCEPT ![last'.args[1]] = @ + 1]
        ELSE erc20' = erc20
C26_MintFrameStep ==
    (now' = now /\ last'.op = "mint") =>
        LET to == last'.args[1]
            quantity == last'.args[2]
            old == erc721a._current_index
        IN  /\ erc721a'._ownerships =
                   [erc721a._ownerships EXCEPT
                       ![old] = [addr |-> to, start_timestamp |-> now, burned |-> FALSE]]
            /\ \A t \in old + 1 .. old + quantity - 1 :
                   erc721a'._ownerships[t] = EmptyOwnership
            /\ erc721a'._address_data =
                   [erc721a._address_data EXCEPT
                       ![to] = [@ EXCEPT !.balance = @ + quantity,
                                         !.number_minted = @ + quantity]]
            /\ erc721a'._current_index = old + quantity
            /\ erc721a'._burn_counter = erc721a._burn_counter
            /\ erc721a'._token_approvals = erc721a._token_approvals
            /\ erc721a'._operator_approvals = erc721a._operator_approvals
C26_MintFrame == [][C26_MintFrameStep]_vars

\* C26 witness: two ids have just been minted to account 2 at timestamp 1 in
\* one call: the slot of id 0 holds account 2 and the timestamp, the slot of id
\* 1 is empty.
C26_Witness ==
    /\ last.op = "mint"
    /\ last.args = <<2, 2>>
    /\ now = 1
    /\ erc721a._current_index = 2
    /\ erc721a._ownerships[0] = [addr |-> 2, start_timestamp |-> 1, burned |-> FALSE]
    /\ erc721a._ownerships[1] = EmptyOwnership
    /\ erc721a._address_data[2].balance = 2
    /\ erc721a._address_data[2].number_minted = 2

\* ---- C27
\* C27: a successful burn of an id owned by o, whoever sends it, lowers the
\* balance of o by 1 and raises number_burned of o by 1, changes no other
\* address data (number_minted of o included), raises _burn_counter by 1,
\* leaves _current_index and logs Transfer(o, 0, id).
C27_BurnAccountingStep ==
    (now' = now /\ last'.op = "burn") =>
        LET token_id == last'.args[2]
            o == owner_of(erc721a, token_id).addr
        IN  /\ owner_of(erc721a, token_id).result = "Ok"
            /\ erc721a'._address_data =
                   [erc721a._address_data EXCEPT
                       ![o] = [@ EXCEPT !.balance = @ - 1, !.number_burned = @ + 1]]
            /\ erc721a'._address_data[o].number_minted =
                   erc721a._address_data[o].number_minted
            /\ erc721a'._burn_counter = erc721a._burn_counter + 1
            /\ erc721a'._current_index = erc721a._current_index
            /\ \E i \in DOMAIN last'.log : last'.log[i] = TransferEvent(o, ZERO, token_id)
C27_BurnAccounting == [][C27_BurnAccountingStep]_vars

\* C27 witness: account 2 has just burned a token of account 1, whose slot
\* keeps account 1; the burn is counted for account 1 and not for account 2,
\* which holds a token of its own.
C27_Witness ==
    /\ last.op = "burn"
    /\ last.args[1] = 2
    /\ erc721a._ownerships[last.args[2]].addr = 1
    /\ erc721a._address_data[1].number_burned = 1
    /\ erc721a._address_data[1].balance = 0
    /\ erc721a._address_data[2].number_burned = 0
    /\ erc721a._address_data[2].balance = 1
    /\ erc721a._burn_counter = 1

\* ---- C28
\* C28: after a successful burn of id the slot at id is burned and holds the
\* owner and the ownership timestamp that id resolved to before the burn.
C28_BurnedSlotRetainsStep ==
    (now' = now /\ last'.op = "burn") =>
        LET token_id == last'.args[2]
            prev_ownership == _ownership_of(erc721a, token_id).ownership
        IN  /\ erc721a'._ownerships[token_id].burned
            /\ erc721a'._ownerships[token_id].addr = prev_ownership.addr
            /\ erc721a'._ownerships[token_id].start_timestamp =
                   prev_ownership.start_timestamp
C28_BurnedSlotRetains == [][C28_BurnedSlotRetainsStep]_vars

\* ---- C29
\* The callbacks the replies allow: up to the first of the quantity callbacks
\* whose reply is not the selector, that one included.
CallbacksDue(quantity, replies) ==
    LET bad == {k \in 1 .. quantity : replies[k] # ERC721_TOKEN_RECEIVER_ID}
    IN  IF bad = {} THEN quantity ELSE CHOOSE k \in bad : \A j \in bad : k <= j

\* C29: _safe_mint(to, quantity) makes no callback when to has no code or
\* _mint fails; otherwise it calls onERC721Received for the new ids in
\* ascending order, once each, up to and including the first callback that
\* fails or replies something other than 0x150b7a02, after which _safe_mint
\* fails; the first callback finds the storage as _mint left it (balance,
\* number_minted, slot and _current_index written) and every callback finds
\* _current_index past the new ids.
C29_CallbackOrderStep ==
    (last'.op = "safe_mint") =>
        LET to == last'.args[1]
            quantity == last'.args[2]
            callbacks == last'.callbacks
            old == erc721a._current_index
            m == _mint(erc721a, to, quantity, now)
            due == CallbacksDue(quantity, last'.replies)
        IN  /\ (to \notin Contracts \/ m.result # "Ok") => callbacks = <<>>
            /\ (to \in Contracts /\ m.result = "Ok") =>
                   /\ Len(callbacks) = due
                   /\ \A i \in DOMAIN callbacks : callbacks[i].token_id = old + i - 1
                   /\ callbacks[1].seen = m.self
                   /\ callbacks[1].seen._ownerships[old].addr = to
                   /\ callbacks[1].seen._address_data[to].balance =
                          erc721a._address_data[to].balance + quantity
                   /\ \A i \in DOMAIN callbacks :
                          callbacks[i].seen._current_index >= old + quantity
                   /\ (\E k \in 1 .. quantity :
                           last'.replies[k] # ERC721_TOKEN_RECEIVER_ID) =>
                          /\ last'.result \in {"ExternalCall",
                                               "TransferToNonERC721ReceiverImplementer"}
                          /\ erc721a' = erc721a
C29_CallbackOrder == [][C29_CallbackOrderStep]_vars

\* C29 witnesses: a _safe_mint of two tokens to the receiver contract that
\* made both callbacks, for ids 0 and 1, and succeeded; one whose first
\* callback reverted, so that the second was not made; and a _safe_mint of two
\* tokens to an account without code, which made none.
C29_Witness ==
    /\ last.op = "safe_mint"
    /\ last.result = "Ok"
    /\ last.args[1] = 2
    /\ last.args[2] = 2
    /\ Len(last.callbacks) = 2
    /\ last.callbacks[1].token_id = 0
    /\ last.callbacks[2].token_id = 1
    /\ last.callbacks[1].seen._current_index = 2

C29_WitnessStops ==
    /\ last.op = "safe_mint"
    /\ last.result = "ExternalCall"
    /\ last.args[2] = 2
    /\ last.replies = <<Reverted, ERC721_TOKEN_RECEIVER_ID>>
    /\ Len(last.callbacks) = 1

C29_WitnessNoCode ==
    /\ last.op = "safe_mint"
    /\ last.result = "Ok"
    /\ last.args[1] = 1
    /\ last.args[2] = 2
    /\ last.callbacks = <<>>

\* ---- C30
\* Invariant I1 of a storage: every minted id is in exactly one of the cases
\* (a), (b), (c), and an id of case (c) resolves to the nearest lower id that
\* records an owner.
I1(self) ==
    \A t \in MintedIds(self) :
        /\ Cardinality({c \in {"a", "b", "c"} :
                \/ c = "a" /\ CaseA(self, t)
                \/ c = "b" /\ CaseB(self, t)
                \/ c = "c" /\ CaseC(self, t)}) = 1
        /\ CaseC(self, t) =>
              owner_of(self, t) =
                  [result |-> "Ok",
                   addr |-> self._ownerships[NearestLowerExplicit(self, t)].addr]

\* The tokens of a storage that owner_of gives to account a.
TokensOf(self, a) ==
    {t \in MintedIds(self) : owner_of(self, t) = [result |-> "Ok", addr |-> a]}

\* The balance accounting of a storage: the balance of every address is the
\* number of tokens owner_of gives to it, and total_supply is their sum.
BalanceAccounting(self) ==
    /\ \A a \in Address : self._address_data[a].balance = Cardinality(TokensOf(self, a))
    /\ total_supply(self) =
           Cardinality({t \in MintedIds(self) : owner_of(self, t).result = "Ok"})

ConsistentLedger(self) == I1(self) /\ BalanceAccounting(self)

\* C30: a safe_transfer_from whose transfer succeeds to a receiver with code
\* makes its callback on the storage _transfer returned (approval, both
\* balances, the slot at id and the successor slot written): there
\* owner_of(id) is the receiver, and I1 and the balance accounting hold; the
\* storage left by the callback's reentrant transfer, burn or mint satisfies
\* them too, whether or not the reply is accepted.  Without code no callback
\* is made.
C30_CallbackAfterWritesStep ==
    (last'.op = "safe_transfer") =>
        LET to == last'.args[3]
            token_id == last'.args[4]
            callbacks == last'.callbacks
        IN  /\ to \notin Contracts => callbacks = <<>>
            /\ to \in Contracts =>
                   /\ Len(callbacks) = 1
                   /\ callbacks[1].token_id = token_id
                   /\ callbacks[1].seen =
                          _transfer(erc721a, last'.args[1], last'.args[2], to, token_id,
                                    now).self
                   /\ owner_of(callbacks[1].seen, token_id) = [result |-> "Ok", addr |-> to]

\* The storage every callback of the last safe_transfer_from found and the
\* storage the call ended with are consistent ledgers.
C30_ConsistentAtCallback ==
    (last.op = "safe_transfer") =>
        /\ \A i \in DOMAIN last.callbacks : ConsistentLedger(last.callbacks[i].seen)
        /\ ConsistentLedger(last.left)

C30_CallbackAfterWrites ==
    /\ [](ConsistentLedger(erc721a) /\ C30_ConsistentAtCallback)
    /\ [][C30_CallbackAfterWritesStep]_vars

\* C30 witness: account 1 has safely transferred token 0 of a batch of two to
\* the receiver contract, whose callback found token 1 written for account 1
\* and sent token 0 on to account 1.
C30_Witness ==
    /\ last.op = "safe_transfer"
    /\ last.result = "Ok"
    /\ last.args = <<1, 1, 2, 0>>
    /\ last.behaviour.calls = <<"transfer">>
    /\ Len(last.callbacks) = 1
    /\ last.callbacks[1].seen._ownerships[0].addr = 2
    /\ last.callbacks[1].seen._ownerships[1].addr = 1
    /\ last.callbacks[1].seen._address_data[2].balance = 1
    /\ erc721a._ownerships[0].addr = 1
    /\ erc721a._address_data[1].balance = 2

\* ---- C31
\* C31: the first id of every mint batch has a non-zero slot addr in every
\* later state, and for every minted id the backward scan of _ownership_of
\* stops at or above the first id of the batch that minted it: it visits at
\* most as many slots as the batch has ids.
C31_BatchBoundsScan ==
    \A t \in MintedIds(erc721a) :
        LET b == batch_of[t]
            r == _ownership_of(erc721a, t)
        IN  /\ b.quantity >= 1
            /\ b.start <= t /\ t < b.start + b.quantity
            /\ Explicit(erc721a, b.start)
            /\ r.visited <= t - b.start + 1
            /\ r.visited <= b.quantity

\* C31 witness: the first id of a batch of three has just been burned; its
\* slot keeps a non-zero addr, and the scan from the last id of the batch
\* stops inside the batch.
C31_Witness ==
    /\ last.op = "burn"
    /\ last.args[2] = 0
    /\ batch_of[2] = [start |-> 0, quantity |-> 3]
    /\ erc721a._ownerships[0].burned
    /\ Explicit(erc721a, 0)
    /\ ~Explicit(erc721a, 2)
    /\ _ownership_of(erc721a, 2).visited = 2

\* ---- C32
\* The id a transfer or burn step acts on.
ActedId(l) == IF l.op = "transfer" THEN l.args[4] ELSE l.args[2]

\* C32: a transfer or burn of id that finds the slot of id + 1 empty and
\* id + 1 minted writes into it the owner and the start_timestamp of the
\* ownership id resolved to before the call, not the block timestamp; every
\* other id resolves to the same ownership record, start_timestamp included,
\* before and after the call.
C32_SuccessorTimestampStep ==
    (now' = now /\ last'.op \in {"transfer", "burn"}) =>
        LET token_id == ActedId(last')
            prev_ownership == _ownership_of(erc721a, token_id).ownership
        IN  /\ (/\ erc721a._ownerships[token_id + 1].addr = ZERO
                /\ token_id + 1 < erc721a._current_index) =>
                   erc721a'._ownerships[token_id + 1] =
                       [addr |-> prev_ownership.addr,
                        start_timestamp |-> prev_ownership.start_timestamp,
                        burned |-> FALSE]
            /\ \A t \in MintedIds(erc721a) \ {token_id} :
                   _ownership_of(erc721a', t).result = _ownership_of(erc721a, t).result
                   /\ _ownership_of(erc721a', t).ownership =
                          _ownership_of(erc721a, t).ownership
InsufficientBalanceCase ==
    \A sender \in Accounts, from \in Accounts, to \in Address, value \in Values :
        (erc20_transfer_from(erc20, sender, from, to, value).result = "InsufficientBalance")
            <=> (/\ erc20.allowances[from][sender] >= value
                 /\ erc20.balances[from] < value)

C33_AllOrNothingStep ==
    (last'.op = "transfer_from" /\ last'.result = "InsufficientBalance") =>
        /\ erc20'.allowances = erc20.allowances
        /\ erc20' = erc20
        /\ last'.log = <<>>

C34_MintLoopSucceeds ==
    (last.op = "mint_loop" /\ last.args[2] >= 1) =>
        /\ last.result = "Ok"
        /\ \A i \in 1 .. last.args[2] :
               erc721.owners[mock_total_supply - i] = last.args[1]

\* ---- C35
\* C35: in every reachable state, every minted id whose slot is empty (zero
\* addr, not burned) has a lower slot with a non-zero addr, and the nearest
\* such slot is not burned; so the ownership record that _ownership_of
\* returns, whose scan does not test the burned flag, is never a burned one.
C35_ScanSkipsNoBurned ==
    /\ \A t \in MintedIds(erc721a) :
           (~Explicit(erc721a, t) /\ ~erc721a._ownerships[t].burned) =>
               /\ HasLowerExplicit(erc721a, t)
               /\ ~erc721a._ownerships[NearestLowerExplicit(erc721a, t)].burned
    /\ \A t \in QueryIds :
           _ownership_of(erc721a, t).result = "Ok" =>
               ~_ownership_of(erc721a, t).ownership.burned

\* C35 witness: token 0 of a batch of three has just been burned; token 2 is
\* still implicit and resolves through slot 1, which the burn wrote for the
\* owner, and not through the burned slot 0.
C35_Witness ==
    /\ last.op = "burn"
    /\ last.args[2] = 0
    /\ erc721a._ownerships[0].burned
    /\ erc721a._ownerships[0].addr = 1
    /\ erc721a._ownerships[1] = [addr |-> 1, start_timestamp |-> 0, burned |-> FALSE]
    /\ ~Explicit(erc721a, 2)
    /\ NearestLowerExplicit(erc721a, 2) = 1
    /\ owner_of(erc721a, 2) = [result |-> "Ok", addr |-> 1]

\* ---- C36
\* The sum of f over the set S.
RECURSIVE SumOver(_, _)
SumOver(f, S) ==
    IF S = {} THEN 0
    ELSE LET x == CHOOSE y \in S : TRUE
         IN  f[x] + SumOver(f, S \ {x})

\* The balances of the ERC721A ledger.
BalanceOf(self) == [a \in Address |-> self._address_data[a].balance]

\* In every state: each balance is the number of ids owner_of gives the
\* address, no balance is negative, and the balances add up to total_supply.
C36_BalancesCount ==
    /\ \A a \in Address :
           /\ BalanceOf(erc721a)[a] = Cardinality(TokensOf(erc721a, a))
           /\ BalanceOf(erc721a)[a] >= 0
    /\ SumOver(BalanceOf(erc721a), Address) = total_supply(erc721a)

\* In every transfer and burn step the balance that is decremented, the one of
\* the owner before the call, is at least 1; a transfer with from = to leaves
\* every balance as it was.
C36_NoUnderflowStep ==
    /\ (last'.op = "transfer") =>
           /\ BalanceOf(erc721a)[last'.args[2]] >= 1
           /\ last'.args[2] = last'.args[3] => BalanceOf(erc721a') = BalanceOf(erc721a)
    /\ (last'.op = "burn") =>
           BalanceOf(erc721a)[owner_of(erc721a, last'.args[2]).addr] >= 1

\* C36: ERC721A accounting.  balance[a] is the number of minted ids t with
\* owner_of(t) = a, the balances add up to total_supply(), and the decrement
\* in transfer and burn never underflows, a transfer to oneself included.
C36_Accounting == []C36_BalancesCount /\ [][C36_NoUnderflowStep]_vars

\* C36 witness: account 1, approved by account 2 for its only token, has
\* transferred the token from account 2 to account 2; the balances are as
\* before, and a token of the ledger has been burned.
C36_Witness ==
    /\ last.op = "transfer"
    /\ last.args[1] = 1
    /\ last.args[2] = 2
    /\ last.args[3] = 2
    /\ BalanceOf(erc721a)[2] = 1
    /\ erc721a._burn_counter = 1
    /\ total_supply(erc721a) = 1

\* ---- C37
\* number_minted and number_burned of the ERC721A ledger, by address.
NumberMinted(self) == [a \in Address |-> self._address_data[a].number_minted]
NumberBurned(self) == [a \in Address |-> self._address_data[a].number_burned]

\* In every state the number_minted add up to _current_index - start_id and
\* the number_burned to _burn_counter.
C37_AggregateSums ==
    /\ SumOver(NumberMinted(erc721a), Address) = erc721a._current_index - _start_token_id
    /\ SumOver(NumberBurned(erc721a), Address) = erc721a._burn_counter

\* In every step none of the four counters decreases; a step that changes
\* _current_index or a number_minted is a mint, and a step that changes
\* _burn_counter or a number_burned is a burn.
C37_MonotoneStep ==
    /\ erc721a'._current_index >= erc721a._current_index
    /\ erc721a'._burn_counter >= erc721a._burn_counter
    /\ \A a \in Address :
           /\ NumberMinted(erc721a')[a] >= NumberMinted(erc721a)[a]
           /\ NumberBurned(erc721a')[a] >= NumberBurned(erc721a)[a]
    /\ (\/ erc721a'._current_index # erc721a._current_index
        \/ NumberMinted(erc721a') # NumberMinted(erc721a)) => last'.op = "mint"
    /\ (\/ erc721a'._burn_counter # erc721a._burn_counter
        \/ NumberBurned(erc721a') # NumberBurned(erc721a)) => last'.op = "burn"
    /\ (last'.op = "transfer" /\ now' = now) =>
           /\ NumberMinted(erc721a') = NumberMinted(erc721a)
           /\ NumberBurned(erc721a') = NumberBurned(erc721a)

\* C37: the number_minted of all addresses add up to _current_index -
\* start_id and the number_burned to _burn_counter; the four counters never
\* decrease; only mint changes _current_index and number_minted, only burn
\* changes _burn_counter and number_burned.
C37_Aggregates == []C37_AggregateSums /\ [][C37_MonotoneStep]_vars

\* C37 witness: each account has minted one token, account 2 has received the
\* token of account 1, and one of the two tokens of account 2 has been burned.
C37_Witness ==
    /\ last.op = "burn"
    /\ NumberMinted(erc721a) = [a \in Address |-> IF a = 1 THEN 1 ELSE IF a = 2 THEN 1 ELSE 0]
    /\ NumberBurned(erc721a) = [a \in Address |-> IF a = 2 THEN 1 ELSE 0]
    /\ BalanceOf(erc721a)[2] = 1
    /\ erc721a._current_index = 2
    /\ erc721a._burn_counter = 1

\* ---- C38
\* Account x can transfer token_id away from its owner, or burn it with the
\* approval check.
CanTransfer(self, x, token_id) ==
    \E to \in Accounts :
        transfer_from(self, x, owner_of(self, token_id).addr, to, token_id, now).result = "Ok"
CanBurn(self, x, token_id) == _burn(self, x, token_id, TRUE, now).result = "Ok"
CanSpend(self, x, token_id) == CanTransfer(self, x, token_id) \/ CanBurn(self, x, token_id)

\* After a transfer of id to B, the account that held the per-token approval
\* of id before the transfer, if it is neither B nor an operator of B, can
\* neither transfer nor burn id: both calls fail with
\* TransferCallerNotOwnerNorApproved.
C38_ApprovalEndsStep ==
    (last'.op = "transfer") =>
        LET token_id == last'.args[4]
            B == last'.args[3]
            X == erc721a._token_approvals[token_id]
        IN  (X \in Accounts /\ X # B /\ ~is_approved_for_all(erc721a', B, X)) =>
                /\ ~CanSpend(erc721a', X, token_id)
                /\ \A to \in Accounts :
                       transfer_from(erc721a', X, B, to, token_id, now).result =
                           "TransferCallerNotOwnerNorApproved"
                /\ _burn(erc721a', X, token_id, TRUE, now).result =
                       "TransferCallerNotOwnerNorApproved"

\* In every state an account that can spend a token is its owner, an operator
\* of its owner, or the account in the token's approval slot.
C38_SpendersKnown ==
    \A token_id \in MintedIds(erc721a), x \in Accounts :
        CanSpend(erc721a, x, token_id) =>
            \/ x = owner_of(erc721a, token_id).addr
            \/ is_approved_for_all(erc721a, owner_of(erc721a, token_id).addr, x)
            \/ x = erc721a._token_approvals[token_id]

\* The approval slot of a token changes only in an approve of the token, to
\* the account approved, in a transfer of the token, to the new owner, and in
\* a burn of the token, to zero: an account a transfer has removed from the
\* slot returns to it only by a new approve.
C38_ApprovalWritesStep ==
    \A token_id \in TokenIds :
        (erc721a'._token_approvals[token_id] # erc721a._token_approvals[token_id]) =>
            \/ /\ last'.op = "approve"
               /\ last'.args[3] = token_id
               /\ erc721a'._token_approvals[token_id] = last'.args[2]
            \/ /\ last'.op = "transfer"
               /\ last'.args[4] = token_id
               /\ erc721a'._token_approvals[token_id] = last'.args[3]
            \/ /\ last'.op = "burn"
               /\ last'.args[2] = token_id
               /\ erc721a'._token_approvals[token_id] = ZERO

\* C38: a per-token approval does not outlive a transfer of the token: the
\* account that held it, unless it is the new owner or an operator of the new
\* owner, can neither transfer nor burn the token until a new approve puts it
\* into the approval slot again.
C38_ApprovalEnds ==
    /\ []C38_SpendersKnown
    /\ [][C38_ApprovalEndsStep /\ C38_ApprovalWritesStep]_vars

\* C38 witness: account 2, not an operator of account 1, has used its
\* per-token approval of token 0 to transfer the token from account 1 to
\* account 1; a second transfer by account 2 now fails.
C38_Witness ==
    /\ last.op = "transfer"
    /\ last.args = <<2, 1, 1, 0>>
    /\ ~is_approved_for_all(erc721a, 1, 2)
    /\ erc721a._token_approvals[0] = 1
    /\ transfer_from(erc721a, 2, 1, 2, 0, now).result = "TransferCallerNotOwnerNorApproved"
    /\ ~CanSpend(erc721a, 2, 0)

\* ---- C39
\* In every state of the ERC20 contract the balances add up to total_supply.
C39_Conserved == SumOver(erc20.balances, Address) = erc20.total_supply

\* A transfer or transfer_from step leaves total_supply as it was, and when it
\* moves value from an account to that same account, that balance too.
C39_TransferStep ==
    /\ last'.op \in {"transfer", "transfer_from"} => erc20'.total_supply = erc20.total_supply
    /\ (last'.op = "transfer" /\ last'.result = "Ok" /\ last'.args[1] = last'.args[2])
          => erc20'.balances = erc20.balances
    /\ (last'.op = "transfer_from" /\ last'.result = "Ok" /\ last'.args[2] = last'.args[3])
          => erc20'.balances = erc20.balances

\* C39: after any sequence of _mint, _burn, transfer, transfer_from, approve
\* and permit calls the sum of all balances equals total_supply; transfer and
\* transfer_from never change total_supply, and a transfer with from = to
\* leaves that balance unchanged.
C39_Conservation == []C39_Conserved /\ [][C39_TransferStep]_vars

\* Account 1 holding a token has sent value 1 to itself, and still holds what
\* it held.
C39_Witness ==
    /\ last.op = "transfer"
    /\ last.result = "Ok"
    /\ last.args = <<1, 1, 1>>
    /\ erc20.balances[1] >= 1
    /\ erc20.total_supply = SumOver(erc20.balances, Address)

\* ---- C40
\* The token ids of the basic ERC721 contract whose recorded owner is a.
OwnedBy(self, a) == {t \in Tokens : self.owners[t] = a}

\* In every state: the balance of every account is the number of ids it is
\* recorded as the owner of, the zero address (the owner entry of an id that
\* has no owner) has balance 0, and an id that has no owner has no approved
\* account.
C40_BalancesCount ==
    /\ \A a \in Accounts : erc721.balance[a] = Cardinality(OwnedBy(erc721, a))
    /\ erc721.balance[ZERO] = 0
    /\ \A t \in Tokens : erc721.owners[t] = ZERO => erc721.approved[t] = ZERO

\* The decrement of _transfer and of burn is taken from a balance of at least
\* 1, and a transfer from an account to itself leaves its balance as it was.
C40_NoUnderflowStep ==
    /\ last'.op = "erc721_transfer" =>
          /\ erc721.balance[last'.args[2]] >= 1
          /\ last'.args[2] = last'.args[3] => erc721'.balance = erc721.balance
    /\ last'.op = "erc721_burn" =>
          /\ erc721.owners[last'.args[2]] # ZERO
          /\ erc721.balance[erc721.owners[last'.args[2]]] >= 1

\* C40: after any sequence of successful mint, transfer_from and burn calls of
\* the basic ERC721 contract, balance[a] is the number of token ids whose
\* recorded owner is a, the balance decrements of _transfer and burn never
\* underflow (from = to included), and the approved account of an id is zero
\* whenever the id has no owner.
C40_Accounting == []C40_BalancesCount /\ [][C40_NoUnderflowStep]_vars

\* Account 1 owning ids 0 and 1 has transferred id 0 to itself, and id 2 has
\* neither owner nor approved account.
C40_Witness ==
    /\ last.op = "erc721_transfer"
    /\ last.args = <<1, 1, 1, 0>>
    /\ erc721.balance[1] = 2
    /\ OwnedBy(erc721, 1) = {0, 1}
    /\ erc721.owners[2] = ZERO
    /\ erc721.approved[2] = ZERO

====
